---- MODULE Spec2Model ----
(***************************************************************************)
(* Evidence pipeline of the predictive-maintenance agent.                  *)
(*                                                                         *)
(* Spec      one /analyze request: upload, the six-stage graph run by      *)
(*           run_agent, the post-run duties and the response.              *)
(* SpecFuse  fuse_and_explain and get_risk_threshold_label applied to      *)
(*           bounded inputs.                                               *)
(* SpecCodec utils/toon.py: encode and decode applied to bounded inputs.   *)
(* SpecPair  two /analyze requests interleaved at their suspension points, *)
(*           sharing the historical_logs directory and the model handle.   *)
(* SpecSweep every /analyze request of the bounded input space, run to its *)
(*           response one after another.                                   *)
(*                                                                         *)
(* Conventions.  A Python dict is a function whose DOMAIN is its key set.  *)
(* A nullable value is None (<<>>) or Some(v) (<<v>>).  A score is an      *)
(* integer number of hundredths; a fused probability and a mean are exact  *)
(* fractions [n, d] (IEEE rounding is not modelled).  A text built by      *)
(* appending is the sequence of its appended segments.                     *)
(***************************************************************************)
EXTENDS Integers, Sequences, FiniteSets, TLC

VARIABLES
    pc,          \* position of the request: analyze, a stage, Done, ...
    state,       \* the running state dict handed from stage to stage
    request,     \* the AgentState given to run_agent
    trace,       \* stages that have run, in order
    logs_dir,    \* data/historical_logs: file name -> file content
    _model,      \* process-wide LightGBM handle (sensor_model._model)
    form,        \* the multipart form of the /analyze request
    result_state,\* what run_agent returns
    response,    \* what analyze returns to the caller
    store,       \* the relational store the request meets (None: unreachable)
    mode,        \* SpecFuse: which function is applied
    agent,       \* SpecFuse: the object given to fuse_and_explain
    report,      \* SpecFuse: its result
    probs,       \* SpecFuse: two probabilities given to the label tool
    labels,      \* SpecFuse: their labels
    toon_in,     \* SpecCodec: the record or the text given to the codec
    toon_out,    \* SpecCodec: what the codec returned
    reqs,        \* SpecPair, SpecSweep: the requests in flight, each its own record
    alone,       \* SpecPair: each request run on data no other request touches
    loads,       \* SpecPair: times the model file was opened for loading
    model_file,  \* SpecPair: whether the model file on disk can be loaded
    runs_left,   \* SpecSweep: how many requests are not yet run
    final_labels,\* SpecSweep: the status labels of the responses so far
    nonzero_at_fusion \* SpecSweep: modalities whose score was non-zero at fusion

vars == <<pc, state, request, trace, logs_dir, _model, form, result_state,
          response, store, mode, agent, report, probs, labels, toon_in,
          toon_out, reqs, alone, loads, model_file, runs_left, final_labels,
          nonzero_at_fusion>>

pipeVars == <<pc, state, request, trace, logs_dir, _model, form,
              result_state, response, store>>
codecVars == <<toon_in, toon_out>>
pairVars == <<reqs, alone, loads, model_file>>
sweepVars == <<runs_left, final_labels, nonzero_at_fusion>>
fuseVars == <<mode, agent, report, probs, labels, toon_in, toon_out, reqs,
              alone, loads, model_file, runs_left, final_labels,
              nonzero_at_fusion>>

----------------------------------------------------------------------------
(* Python values *)

None == <<>>
Some(v) == <<v>>
IsNone(o) == o = <<>>
Val(o) == o[1]

\* dict.get(key, default)
Get(d, k, default) == IF k \in DOMAIN d THEN d[k] ELSE default

\* getattr(obj, name, default)
getattr(obj, name, default) == IF name \in DOMAIN obj THEN obj[name] ELSE default

\* a merge that keeps the update alone
Update_replaced(a, b) == b

\* merged = dict(a); merged.update(b)
Update(a, b) ==
    [k \in DOMAIN a \cup DOMAIN b |-> IF k \in DOMAIN b THEN b[k] ELSE a[k]]

\* d[k] = v
Put(d, k, v) == [x \in DOMAIN d \cup {k} |-> IF x = k THEN v ELSE d[x]]

EmptyDict == [k \in {} |-> None]

RECURSIVE SumSeq(_)
SumSeq(s) == IF s = <<>> THEN 0 ELSE Head(s) + SumSeq(Tail(s))

\* round-half-up of n/d to an integer (n >= 0, d > 0)
RoundDiv(n, d) == (2 * n + d) \div (2 * d)

----------------------------------------------------------------------------
(* schemas.AgentState *)

AgentStateFields ==
    {"pump_id", "current_total_hours", "sensor_input", "vision_input",
     "vision_result", "history_result", "sensor_risk_score",
     "history_risk_score", "triggered_sensors", "historical_toon_string",
     "transactional_toon_string", "fused_score", "status_label",
     "explanation", "available_modalities"}

EmptyExplanation == [modalities |-> <<>>, clauses |-> <<>>]

AgentStateDefaults ==
    [sensor_input |-> None, vision_input |-> None, vision_result |-> None,
     history_result |-> None, sensor_risk_score |-> 0,
     history_risk_score |-> None, triggered_sensors |-> <<>>,
     historical_toon_string |-> None, transactional_toon_string |-> None,
     fused_score |-> None, status_label |-> None,
     explanation |-> EmptyExplanation, available_modalities |-> <<>>]

\* AgentState(**d) raises a ValidationError: a required field is missing or null
AgentStateInvalid(d) ==
    \/ "pump_id" \notin DOMAIN d
    \/ "current_total_hours" \notin DOMAIN d
    \/ IsNone(d["pump_id"])
    \/ IsNone(d["current_total_hours"])

\* AgentState(**d): declared fields only (pydantic ignores extra keys),
\* defaults for the declared fields d does not hold
AgentState(d) ==
    [k \in AgentStateFields |->
        IF k \in DOMAIN d THEN d[k] ELSE AgentStateDefaults[k]]

----------------------------------------------------------------------------
(* core/tools.py get_risk_threshold_label *)

CriticalPct == 85
HighPct == 60
MediumPct == 35

\* fraction p >= pct/100
GePct(p, pct) == p.n * 100 >= pct * p.d

\* fraction p > pct/100
GtPct(p, pct) == p.n * 100 > pct * p.d

get_risk_threshold_label_gt(prob) ==
    IF GtPct(prob, CriticalPct) THEN "critical"
    ELSE IF GtPct(prob, HighPct) THEN "high"
    ELSE IF GtPct(prob, MediumPct) THEN "medium"
    ELSE "low"

get_risk_threshold_label(prob) ==
    IF GePct(prob, CriticalPct) THEN "critical"
    ELSE IF GePct(prob, HighPct) THEN "high"
    ELSE IF GePct(prob, MediumPct) THEN "medium"
    ELSE "low"

----------------------------------------------------------------------------
(* core/fusion.py fuse_and_explain *)

Modalities == <<"sensor", "vision", "history", "service_age", "transactional">>

\* nominal weights, in tenths
NominalWeights ==
    [sensor |-> 8, vision |-> 2, history |-> 1, service_age |-> 2,
     transactional |-> 2]

\* sum(fusion_weights.values()), in tenths
total_weight == SumSeq([i \in 1..Len(Modalities) |-> NominalWeights[Modalities[i]]])

fusion_weights_unnormalised ==
    [k \in DOMAIN NominalWeights |-> [n |-> NominalWeights[k], d |-> 10]]

\* the weights after "if total_weight != 1.0: v / total_weight", as fractions
fusion_weights ==
    [k \in DOMAIN NominalWeights |->
        [n |-> NominalWeights[k],
         d |-> IF total_weight # 10 THEN total_weight ELSE 10]]

\* f"{w*100:.0f}"
WeightPct(w) == RoundDiv(100 * w.n, w.d)

Signal(kind, arg) == <<kind, arg>>

history_score_dropped(history_risk_score) == 0

\* "history_risk_score if history_risk_score is not None else 0.0"
history_score_of(history_risk_score) ==
    IF ~IsNone(history_risk_score) THEN Val(history_risk_score) ELSE 0

fuse_and_explain(st) ==
    LET sensor_score == getattr(st, "sensor_risk_score", 0)
        vision == st["vision_result"]
        history == getattr(st, "history_result", None)
        history_risk_score == getattr(st, "history_risk_score", None)
        service_age_score == getattr(st, "service_age_risk_score", 0)
        transactional_score == getattr(st, "transactional_risk_score", 0)
        vision_score == IF ~IsNone(vision) THEN Val(vision).visual_risk_score ELSE 0
        history_score == history_score_of(history_risk_score)
        w == fusion_weights
        score == [sensor |-> sensor_score, vision |-> vision_score,
                  history |-> history_score, service_age |-> service_age_score,
                  transactional |-> transactional_score]
        fused_prob ==
            [n |-> w["sensor"].n * sensor_score + w["vision"].n * vision_score
                   + w["history"].n * history_score
                   + w["service_age"].n * service_age_score
                   + w["transactional"].n * transactional_score,
             d |-> w["sensor"].d * 100]
        risk_label == get_risk_threshold_label(fused_prob)
        has_leaks == ~IsNone(vision) /\ Val(vision).has_leaks
        has_cracks == ~IsNone(vision) /\ Val(vision).has_cracks
        overdue == IF IsNone(history) THEN <<>> ELSE Val(history).overdue_tasks
        explanation ==
            [modalities |->
                [i \in 1..Len(Modalities) |->
                    <<Modalities[i], WeightPct(w[Modalities[i]]), score[Modalities[i]]>>],
             clauses |->
                (IF has_leaks THEN <<"Visual seal leak detected">> ELSE <<>>)
                \o (IF overdue # <<>> THEN <<"History risk impact">> ELSE <<>>)
                \o (IF service_age_score > 50 THEN <<"Service age anomaly detected">> ELSE <<>>)
                \o (IF transactional_score > 50
                    THEN <<"Outstanding transactional/maintenance risk">> ELSE <<>>)
                \o (IF sensor_score = 0 /\ vision_score = 0 /\ history_score = 0
                       /\ service_age_score = 0 /\ transactional_score = 0
                    THEN <<"No significant risk factors detected.">> ELSE <<>>)]
        triggered == getattr(st, "triggered_sensors", <<>>)
        rule_items ==
            (IF has_leaks THEN <<"Inspect for leaks immediately.">> ELSE <<>>)
            \o (IF has_cracks THEN <<"Inspect for cracks immediately.">> ELSE <<>>)
            \o (IF overdue # <<>> THEN <<"Perform overdue maintenance tasks.">> ELSE <<>>)
            \o (IF service_age_score > 50 THEN <<"Check overdue service schedule.">> ELSE <<>>)
            \o (IF transactional_score > 50
                THEN <<"Review outstanding maintenance requests.">> ELSE <<>>)
        action_items ==
            IF rule_items = <<>> THEN <<"Continue routine monitoring.">> ELSE rule_items
        top_signals ==
            [i \in 1..Len(triggered) |-> Signal("Historical Spike", triggered[i])]
            \o (IF has_leaks THEN <<Signal("Vision", "Leak detected in casting image")>> ELSE <<>>)
            \o (IF has_cracks THEN <<Signal("Vision", "Crack detected in casting image")>> ELSE <<>>)
            \o (IF overdue # <<>>
                THEN [i \in 1..(IF Len(overdue) < 3 THEN Len(overdue) ELSE 3) |->
                        Signal("History overdue", overdue[i])]
                ELSE <<>>)
            \o (IF service_age_score > 50
                THEN <<Signal("Service age anomaly detected", "")>> ELSE <<>>)
            \o (IF transactional_score > 50
                THEN <<Signal("Outstanding transactional/maintenance risk", "")>> ELSE <<>>)
    IN  [fused_score |-> Some(fused_prob),
         status_label |-> Some(risk_label),
         explanation |-> explanation,
         top_signals |-> top_signals,
         action_items |-> action_items,
         modality_contributions |->
            [k \in DOMAIN score |-> [score |-> score[k], weight |-> w[k]]],
         manual_context |-> getattr(st, "manual_context", None),
         anomaly_query |-> getattr(st, "anomaly_query", None)]

----------------------------------------------------------------------------
(* Historical series files.  A file is a sequence of runs; a run is n      *)
(* consecutive rows starting at operating hour h with the same sensor      *)
(* values v (None is an empty cell).                                       *)

Sensors == <<"Vibration", "Temperature", "Pressure">>

\* feature_node.py: "if len(vals) < 10"
MinSamples == 10
\* feature_node.py: "vals[-100:]", "len(vals) >= 100"
RollingWindow == 100
\* feature_node.py: "history_risk_score = 0.5 if is_outlier else None"
OutlierRiskPct == 50

Row(vib, temp, pres) == [Vibration |-> vib, Temperature |-> temp, Pressure |-> pres]
Run(h, n, v) == [h |-> h, n |-> n, v |-> v]
File(rows) == [readable |-> TRUE, too_large |-> FALSE, columns_ok |-> TRUE, rows |-> rows]

RECURSIVE InsertRun(_, _)
InsertRun(r, sorted) ==
    IF sorted = <<>> THEN <<r>>
    ELSE IF r.h < Head(sorted).h THEN <<r>> \o sorted
    ELSE <<Head(sorted)>> \o InsertRun(r, Tail(sorted))

\* df.sort("Operational_Hours")
RECURSIVE SortRuns(_)
SortRuns(rows) ==
    IF rows = <<>> THEN <<>> ELSE InsertRun(Head(rows), SortRuns(Tail(rows)))

\* df[sensor].drop_nulls(): <<value, count>> pairs in row order
RECURSIVE drop_nulls(_, _)
drop_nulls(rows, sensor) ==
    IF rows = <<>> THEN <<>>
    ELSE (IF IsNone(Head(rows).v[sensor]) THEN <<>>
          ELSE << <<Val(Head(rows).v[sensor]), Head(rows).n>> >>)
         \o drop_nulls(Tail(rows), sensor)

\* len(vals)
RECURSIVE SeriesLen(_)
SeriesLen(vals) == IF vals = <<>> THEN 0 ELSE Head(vals)[2] + SeriesLen(Tail(vals))

\* sum of the samples
RECURSIVE SeriesSum(_)
SeriesSum(vals) ==
    IF vals = <<>> THEN 0 ELSE Head(vals)[1] * Head(vals)[2] + SeriesSum(Tail(vals))

\* sum of the squared samples
RECURSIVE SeriesSumSq(_)
SeriesSumSq(vals) ==
    IF vals = <<>> THEN 0
    ELSE Head(vals)[1] * Head(vals)[1] * Head(vals)[2] + SeriesSumSq(Tail(vals))

\* vals[-k:]
RECURSIVE LastSamples(_, _)
LastSamples(vals, k) ==
    IF vals = <<>> \/ k <= 0 THEN <<>>
    ELSE LET last == vals[Len(vals)]
             rest == SubSeq(vals, 1, Len(vals) - 1)
         IN  IF last[2] >= k THEN << <<last[1], k>> >>
             ELSE LastSamples(rest, k - last[2]) \o <<last>>

RECURSIVE InsertByValue(_, _)
InsertByValue(x, sorted) ==
    IF sorted = <<>> THEN <<x>>
    ELSE IF x[1] < Head(sorted)[1] THEN <<x>> \o sorted
    ELSE <<Head(sorted)>> \o InsertByValue(x, Tail(sorted))

RECURSIVE SortByValue(_)
SortByValue(vals) ==
    IF vals = <<>> THEN <<>> ELSE InsertByValue(Head(vals), SortByValue(Tail(vals)))

\* the sample at 0-based position idx of a value-sorted series
RECURSIVE SampleAt(_, _)
SampleAt(sorted, idx) ==
    IF idx < Head(sorted)[2] THEN Head(sorted)[1]
    ELSE SampleAt(Tail(sorted), idx - Head(sorted)[2])

\* vals.quantile(0.95), polars' default "nearest" interpolation
quantile95(vals) ==
    SampleAt(SortByValue(vals), RoundDiv(95 * (SeriesLen(vals) - 1), 100))

Abs(x) == IF x < 0 THEN 0 - x ELSE x

RECURSIVE GCD(_, _)
GCD(a, b) == IF b = 0 THEN a ELSE GCD(b, a % b)

\* the fraction n/d in lowest terms (d > 0)
Frac(n, d) ==
    LET g == GCD(Abs(n), d) IN [n |-> n \div g, d |-> d \div g]

FracSub(a, b) == Frac(a.n * b.d - b.n * a.d, a.d * b.d)

\* vals.mean()
mean(vals) == Frac(SeriesSum(vals), SeriesLen(vals))

\* vals.std() squared: the sample variance (ddof = 1), len(vals) >= 2
variance(vals) ==
    LET cnt == SeriesLen(vals)
        sm == SeriesSum(vals)
    IN  Frac(cnt * SeriesSumSq(vals) - sm * sm, cnt * (cnt - 1))

----------------------------------------------------------------------------
(* core/feature_node.py *)

HistorySuffix == "_history.csv"

\* str.lower(), on the characters asset ids are made of
LowerChar(c) == IF c = "P" THEN "p" ELSE c
lower(str) == [i \in 1..Len(str) |-> LowerChar(str[i])]

\* re.sub(r'[^\w\s\-\.:]', '', val)
RECURSIVE sanitize_str(_)
sanitize_str(str) ==
    IF str = <<>> THEN <<>>
    ELSE (IF Head(str) \in {"#", "/", "$"} THEN <<>> ELSE <<Head(str)>>)
         \o sanitize_str(Tail(str))

\* needle in haystack (Python substring test)
Contains(haystack, needle) ==
    \E i \in 0..(Len(haystack) - Len(needle)) :
        SubSeq(haystack, i + 1, i + Len(needle)) = needle

\* f"{pump_id}_history.csv"
CanonicalName(pump_id) == pump_id \o <<HistorySuffix>>

\* the files the scan of logs_dir moves onto the canonical path
Strays(dir, pump_id) ==
    {fname \in DOMAIN dir :
        /\ fname # CanonicalName(pump_id)
        /\ fname[Len(fname)] = HistorySuffix
        /\ Contains(fname, pump_id)}

\* the directory after the scan; every stray is moved onto the canonical
\* path, so the one os.listdir yields last is the one that stays
Handshake(dir, pump_id, last) ==
    IF Strays(dir, pump_id) = {} THEN dir
    ELSE [fname \in (DOMAIN dir \ Strays(dir, pump_id)) \cup {CanonicalName(pump_id)} |->
            IF fname = CanonicalName(pump_id) THEN dir[last] ELSE dir[fname]]

NullPerSensor == [i \in {Sensors[j] : j \in 1..Len(Sensors)} |-> None]

_empty_history ==
    [adaptive_thresholds |-> NullPerSensor,
     rolling_means |-> NullPerSensor,
     drift_scores |-> NullPerSensor,
     is_historical_outlier |-> FALSE,
     historical_toon_string |-> None,
     history_risk_score |-> None]

\* _current_val(sensor) on the dumped sensor_input
_current_val(sinp, sensor) ==
    LET key == IF sensor = "Vibration" THEN "vibration"
               ELSE IF sensor = "Temperature" THEN "temperature" ELSE "pressure"
    IN  IF sensor \in DOMAIN sinp /\ ~IsNone(sinp[sensor]) THEN sinp[sensor]
        ELSE Get(sinp, key, None)

EmptyAcc ==
    [adaptive_thresholds |-> EmptyDict, rolling_means |-> EmptyDict,
     drift_scores |-> EmptyDict, is_outlier |-> FALSE,
     triggered_sensors |-> <<>>, baseline_metrics |-> <<>>]

TooFewSamples_le(vals) == SeriesLen(vals) <= MinSamples

\* "if len(vals) < 10"
TooFewSamples(vals) == SeriesLen(vals) < MinSamples

global_std_sq_unfloored(vals) == variance(vals)

\* global_std squared: "float(vals.std()) if float(vals.std()) > 0 else 1.0"
global_std_sq(vals) == IF variance(vals).n > 0 THEN variance(vals) ELSE Frac(1, 1)

Exceeds_ge(current_val, threshold) == current_val >= threshold

\* "if current_val > adaptive_thresholds[sensor]"
Exceeds(current_val, threshold) == current_val > threshold

\* one iteration of "for sensor in sensors"
SensorStep(acc, rows, sinp, sensor) ==
    LET vals == drop_nulls(rows, sensor)
    IN  IF TooFewSamples(vals)
        THEN [acc EXCEPT
                !.adaptive_thresholds = Put(@, sensor, None),
                !.rolling_means = Put(@, sensor, None),
                !.drift_scores = Put(@, sensor, None)]
        ELSE
        LET p95_val == quantile95(vals)
            mean_val == IF SeriesLen(vals) >= RollingWindow
                        THEN mean(LastSamples(vals, RollingWindow))
                        ELSE mean(vals)
            global_mean == mean(vals)
            \* (rolling mean - global mean) / global_std, kept as the
            \* numerator and the square of the divisor
            drift == [diff |-> FracSub(mean_val, global_mean),
                      std_sq |-> global_std_sq(vals)]
            raw_val == _current_val(sinp, sensor)
            triggers == ~IsNone(raw_val) /\ Exceeds(Val(raw_val), p95_val)
        IN  [adaptive_thresholds |-> Put(acc.adaptive_thresholds, sensor, Some(p95_val)),
             rolling_means |-> Put(acc.rolling_means, sensor, Some(mean_val)),
             drift_scores |-> Put(acc.drift_scores, sensor, Some(drift)),
             is_outlier |-> acc.is_outlier \/ triggers,
             triggered_sensors |->
                IF triggers THEN Append(acc.triggered_sensors, sensor)
                ELSE acc.triggered_sensors,
             baseline_metrics |->
                Append(acc.baseline_metrics,
                       [sensor |-> sensor, p95 |-> p95_val, mean |-> mean_val])]

RECURSIVE SensorLoop(_, _, _, _)
SensorLoop(acc, rows, sinp, i) ==
    IF i > Len(Sensors) THEN acc
    ELSE SensorLoop(SensorStep(acc, rows, sinp, Sensors[i]), rows, sinp, i + 1)

\* encode(historical_context): the aliased keys of its non-empty entries
EncodeHistoricalContext(pump_id, baseline_metrics) ==
    (IF pump_id # <<>> THEN <<"PumpId">> ELSE <<>>)
    \o (IF baseline_metrics # <<>> THEN <<"BaseMetr">> ELSE <<>>)

\* the pump_id feature_node works with
FeaturePumpId(st) == lower(sanitize_str(Val(st["pump_id"])))

\* feature_node(state) once the scan has left the directory as dir
inner_feature_node(st, dir) ==
    LET pump_id == FeaturePumpId(st)
        hist_path == CanonicalName(pump_id)
        sinp == IF IsNone(Get(st, "sensor_input", None)) THEN EmptyDict
                ELSE Val(st["sensor_input"])
        empty == [k \in DOMAIN _empty_history \cup {"triggered_sensors"} |->
                    IF k = "triggered_sensors" THEN <<>> ELSE _empty_history[k]]
    IN  IF hist_path \notin DOMAIN dir THEN empty
        ELSE IF dir[hist_path].too_large
        THEN Put(empty, "historical_toon_string", Some(<<"File too large (>50MB)">>))
        ELSE IF ~dir[hist_path].readable
        THEN Put(empty, "historical_toon_string", Some(<<"Error">>))
        ELSE IF ~dir[hist_path].columns_ok
        THEN Put(empty, "historical_toon_string", Some(<<"CSV missing required columns">>))
        ELSE IF IsNone(Get(st, "anomaly_query", Some(<<>>)))
        THEN \* None + str raises inside the try block
             Put(empty, "historical_toon_string", Some(<<"Error">>))
        ELSE
        LET acc == SensorLoop(EmptyAcc, SortRuns(dir[hist_path].rows), sinp, 1)
            work_logs == Get(st, "work_done_logs", <<>>)
            history_risk_score == IF acc.is_outlier THEN Some(OutlierRiskPct) ELSE None
            prev_query == Get(st, "anomaly_query", Some(<<>>))
        IN  [adaptive_thresholds |-> acc.adaptive_thresholds,
             rolling_means |-> acc.rolling_means,
             drift_scores |-> acc.drift_scores,
             is_historical_outlier |-> acc.is_outlier,
             historical_toon_string |->
                Some(EncodeHistoricalContext(pump_id, acc.baseline_metrics)),
             transactional_toon_string |->
                IF work_logs # <<>> THEN Some(<<"ServHist">>) ELSE None,
             history_risk_score |-> history_risk_score,
             triggered_sensors |-> acc.triggered_sensors,
             anomaly_query |-> Some(Append(Val(prev_query), "feature_node"))]

\* the two protected fields re-asserted after a merge
Preserve(merged, st) ==
    LET m1 == IF "manual_context" \notin DOMAIN merged /\ "manual_context" \in DOMAIN st
              THEN Put(merged, "manual_context", st["manual_context"]) ELSE merged
    IN  IF "anomaly_query" \notin DOMAIN m1 /\ "anomaly_query" \in DOMAIN st
        THEN Put(m1, "anomaly_query", st["anomaly_query"]) ELSE m1

\* orchestrator.feature_node
orch_feature_node(st, dir) == Preserve(Update(st, inner_feature_node(st, dir)), st)

----------------------------------------------------------------------------
(* models/sensor_model.py, core/nodes/sensor_node.py *)

\* _load_model(): the handle it returns (and leaves in _model)
_load_model(handle, load_ok) ==
    IF ~IsNone(handle) THEN handle
    ELSE IF load_ok THEN Some("booster") ELSE None

\* sensor_node reaches _load_model()
SensorReachesModel(st) ==
    ~AgentStateInvalid(st) /\ ~IsNone(AgentState(st).sensor_input)

\* nodes/sensor_node.sensor_node(state); prediction is what model.predict
\* returns (None: it raised, and so does the node)
inner_sensor_node(st, model, prediction) ==
    IF AgentStateInvalid(st) THEN EmptyDict
    ELSE IF IsNone(AgentState(st).sensor_input) THEN EmptyDict
    ELSE LET prev_query == Get(st, "anomaly_query", Some(<<>>))
         IN  IF IsNone(model)
             THEN [sensor_risk_score |-> 0,
                   anomaly_query |-> Some(Append(Val(prev_query), "sensor_risk_score: 0.0"))]
             ELSE [sensor_risk_score |-> Val(prediction),
                   anomaly_query |-> Some(Append(Val(prev_query), "sensor_risk_score"))]

\* orchestrator.sensor_node
orch_sensor_node(st, model, prediction) ==
    LET result == inner_sensor_node(st, model, prediction)
        merged == Preserve(Update(st, result), st)
    IN  IF "sensor_anomaly" \in DOMAIN result
        THEN Put(merged, "anomaly_query",
                 Some(Append(Val(Get(merged, "anomaly_query", Some(<<>>))),
                             "Sensor anomaly detected")))
        ELSE merged

----------------------------------------------------------------------------
(* core/service_age_node.py *)

\* ORDER BY timestamp DESC, hours_at_service DESC
Precedes(a, b) ==
    \/ a.timestamp > b.timestamp
    \/ a.timestamp = b.timestamp /\ a.hours_at_service >= b.hours_at_service

\* the work-log rows of a task
LogRows(db, task_name) ==
    {i \in 1..Len(db.work_done_logs) : db.work_done_logs[i].task_name = task_name}

\* hours_at_service of the first row of the ordered query (LIMIT 1), 0 when
\* the task has no row
last_done(db, task_name) ==
    IF LogRows(db, task_name) = {} THEN 0
    ELSE LET first == CHOOSE i \in LogRows(db, task_name) :
                        \A j \in LogRows(db, task_name) :
                            Precedes(db.work_done_logs[i], db.work_done_logs[j])
         IN  db.work_done_logs[first].hours_at_service

IsOverdue_ge(overdue_hours) == overdue_hours >= 0

\* "if overdue_hours > 0"
IsOverdue(overdue_hours) == overdue_hours > 0

RECURSIVE OverdueTasks(_, _, _)
OverdueTasks(db, sched_rows, current_total_hours) ==
    IF sched_rows = <<>> THEN <<>>
    ELSE LET task_name == Head(sched_rows)[1]
             interval_hours == Head(sched_rows)[2]
             overdue_hours ==
                (current_total_hours - last_done(db, task_name)) - interval_hours
         IN  (IF IsOverdue(overdue_hours)
              THEN <<[task_name |-> task_name, overdue_hours |-> overdue_hours,
                      interval_hours |-> interval_hours,
                      last_done |-> last_done(db, task_name),
                      current_total_hours |-> current_total_hours]>>
              ELSE <<>>)
             \o OverdueTasks(db, Tail(sched_rows), current_total_hours)

\* the stage writing empty lists when the store cannot be read
inner_service_age_node_partial(st, db, hist_hours) ==
    IF IsNone(db) THEN [overdue_tasks |-> <<>>, open_requests |-> <<>>] ELSE st

\* the stage opening the store before it looks at the operating hours
inner_service_age_node_store_first(st, db, hist_hours) ==
    IF IsNone(db) THEN st
    ELSE [investigator_error |->
            "Missing current_total_hours and cannot infer from historical_logs."]

\* service_age_node(state); db is None when the store is unreachable or a
\* query fails; hist_hours is max(Operational_Hours) of the file at
\* historical_logs_path (None: no such file, or unreadable)
inner_service_age_node(st, db, hist_hours) ==
    LET given == Get(st, "current_total_hours", None)
        current_total_hours ==
            IF ~IsNone(given) THEN given
            ELSE IF "historical_logs_path" \in DOMAIN st THEN hist_hours ELSE None
    IN  IF IsNone(current_total_hours)
        THEN [investigator_error |->
                "Missing current_total_hours and cannot infer from historical_logs."]
        ELSE IF IsNone(db) THEN st
        ELSE IF IsNone(Get(st, "anomaly_query", Some(<<>>))) THEN st
        ELSE [overdue_tasks |->
                OverdueTasks(Val(db), Val(db).service_schedules, Val(current_total_hours)),
              open_requests |-> Val(db).maintenance_requests,
              anomaly_query |->
                Some(Append(Val(Get(st, "anomaly_query", Some(<<>>))), "overdue_tasks"))]

\* orchestrator.service_age_node
orch_service_age_node(st, db, hist_hours) ==
    LET result == inner_service_age_node(st, db, hist_hours)
        merged == Preserve(Update(st, result), st)
    IN  IF "service_age_anomaly" \in DOMAIN result
        THEN Put(merged, "anomaly_query",
                 Some(Append(Val(Get(merged, "anomaly_query", Some(<<>>))),
                             "Service age anomaly detected")))
        ELSE merged

----------------------------------------------------------------------------
(* core/manual_context_node.py *)

FallbackContext == [normal_range |-> "", causes |-> "", warranty |-> ""]

\* manual_context_node(state); manual_json is json.loads of the LLM answer,
\* None when the answer is no valid JSON
manual_context_node(st, manual_json) ==
    Put(st, "manual_context",
        IF IsNone(manual_json) THEN Some(FallbackContext) ELSE manual_json)

----------------------------------------------------------------------------
(* orchestrator.vision_node *)

\* the stage leaves the state as it is: no vision_input, or no image bytes
VisionSkips(st, image_b64) ==
    IsNone(AgentState(st).vision_input) \/ image_b64 = ""

\* vision_node(state) when the stage reaches the vision call; vision_summary
\* is "" when the call failed
vision_node_result(st, vision_summary) ==
    LET merged == Preserve(Put(st, "vision_summary", vision_summary), st)
        prev_query == Get(merged, "anomaly_query", Some(<<>>))
    IN  Put(merged, "anomaly_query", Some(Append(Val(prev_query), "vision_summary")))

----------------------------------------------------------------------------
(* orchestrator.fusion_node *)

\* fusion_node returning the default report alone, the running state dropped
fusion_node_result_unmerged(st) ==
    IF AgentStateInvalid(st)
    THEN [fused_score |-> Some([n |-> 0, d |-> 1]),
          status_label |-> Some("low"),
          explanation |->
             [modalities |-> <<>>,
              clauses |-> <<"Unable to process: incomplete state">>],
          top_signals |-> <<>>,
          action_items |-> <<"Check system configuration">>]
    ELSE Preserve(Update(st, fuse_and_explain(AgentState(st))), st)

fusion_node_result(st) ==
    IF AgentStateInvalid(st)
    THEN LET fallback ==
                [fused_score |-> Some([n |-> 0, d |-> 1]),
                 status_label |-> Some("low"),
                 explanation |->
                    [modalities |-> <<>>,
                     clauses |-> <<"Unable to process: incomplete state">>],
                 top_signals |-> <<>>,
                 action_items |-> <<"Check system configuration">>]
         IN  Update(st, fallback)
    ELSE Preserve(Update(st, fuse_and_explain(AgentState(st))), st)

----------------------------------------------------------------------------
(* orchestrator.build_graph, run_agent; api/routes.analyze *)

EntryPoint == "sensor_node"
END == "END"

Edges_unordered ==
    [sensor_node |-> "feature_node", service_age_node |-> "manual_context_node",
     feature_node |-> "service_age_node", manual_context_node |-> "vision_node",
     vision_node |-> "fusion_node", fusion_node |-> END]

\* graph.add_edge(...)
Edges ==
    [sensor_node |-> "service_age_node", service_age_node |-> "feature_node",
     feature_node |-> "manual_context_node", manual_context_node |-> "vision_node",
     vision_node |-> "fusion_node", fusion_node |-> END]

\* analyze: _save_uploaded_file(historical_logs)
SaveUpload(dir, upl) ==
    IF IsNone(upl) THEN dir
    ELSE IF Val(upl).filename[Len(Val(upl).filename)] = HistorySuffix
    THEN Put(dir, Val(upl).filename, Val(upl).content)
    ELSE dir

\* analyze: the modalities list
AnalyzeModalities(f) ==
    <<"sensor">> \o (IF ~IsNone(f.pump_image) THEN <<"vision">> ELSE <<>>)
    \o <<"historical">>

\* analyze: AgentState(**state_dict), state_dict being the dumped state plus
\* historical_logs_path when a series was uploaded
AnalyzeRequest(f) ==
    LET built == [pump_id |-> Some(f.asset_id),
                  current_total_hours |-> Some(f.current_total_hours),
                  sensor_input |-> Some(f.sensors),
                  vision_input |->
                    IF IsNone(f.pump_image) THEN None
                    ELSE Some([image_path |-> f.pump_image, image_base64 |-> None]),
                  available_modalities |-> AnalyzeModalities(f)]
        state_dict == IF IsNone(f.historical_logs) THEN AgentState(built)
                      ELSE Put(AgentState(built), "historical_logs_path",
                               Some(Val(f.historical_logs).filename))
    IN  AgentState(state_dict)

\* run_agent handing back the graph result as it is
Reassert_skipped(result, req) == result

\* run_agent: pump_id and current_total_hours re-asserted from the request
Reassert(result, req) ==
    LET r1 == IF "pump_id" \notin DOMAIN result \/ IsNone(result["pump_id"])
              THEN Put(result, "pump_id", req["pump_id"]) ELSE result
    IN  IF "current_total_hours" \notin DOMAIN r1 \/ IsNone(r1["current_total_hours"])
        THEN Put(r1, "current_total_hours", req["current_total_hours"]) ELSE r1

\* run_agent: the historical_logs directory after the cleanup block
Cleanup(dir, req) ==
    LET hist_path == getattr(req, "historical_logs_path", None)
    IN  IF ~IsNone(hist_path) /\ Val(hist_path) \in DOMAIN dir
        THEN [fname \in DOMAIN dir \ {Val(hist_path)} |-> dir[fname]]
        ELSE dir

\* analyze: the response built from run_agent's result
AnalyzeResponse(rs) ==
    IF /\ ~IsNone(rs["fused_score"])
       /\ rs["explanation"] # EmptyExplanation
       /\ "top_signals" \in DOMAIN rs
       /\ "action_items" \in DOMAIN rs
    THEN [fused_score |-> rs["fused_score"], status_label |-> rs["status_label"],
          explanation |-> rs["explanation"], top_signals |-> rs["top_signals"],
          action_items |-> rs["action_items"]]
    ELSE fuse_and_explain(rs)

----------------------------------------------------------------------------
(* Inputs *)

\* rows a series may have beyond MinSamples
ExtraRows == 1
\* resolution of the grid the modality scores are drawn from
ScoreGrid == 2

AssetIds == { <<"p", "1">>, <<"p", "1", "0">> }

HoursPool == {100, 150}

SensorPayloads ==
    { [vibration |-> None, temperature |-> None, pressure |-> None],
      [vibration |-> Some(9), temperature |-> Some(5), pressure |-> Some(7)] }

AllSet(x) == Row(Some(x), Some(x), Some(x))

FilePool ==
    { \* every sensor one sample short
      File(<<Run(1, MinSamples - 1, AllSet(5))>>),
      \* every sensor with exactly MinSamples samples
      File(<<Run(1, MinSamples - 1, AllSet(5)), Run(MinSamples, 1, AllSet(7))>>),
      \* Vibration one sample short, the others not
      File(<<Run(1, MinSamples - 1, AllSet(5)),
             Run(MinSamples, 1, Row(None, Some(7), Some(7)))>>),
      \* a constant series
      File(<<Run(1, MinSamples + ExtraRows, AllSet(5))>>),
      \* rows not in operating-hour order
      File(<<Run(50, MinSamples - 1, AllSet(8)), Run(1, 1 + ExtraRows, AllSet(2))>>),
      \* more than RollingWindow samples, Vibration constant, for the other
      \* sensors the oldest samples unlike the rest
      File(<<Run(1, ExtraRows, Row(Some(4), Some(0), Some(0))),
             Run(10, RollingWindow, AllSet(4))>>),
      \* one sample fewer than RollingWindow
      File(<<Run(1, 1, AllSet(0)), Run(10, RollingWindow - 2, AllSet(4))>>),
      \* not parseable as CSV
      [File(<<>>) EXCEPT !.readable = FALSE],
      \* a required column is missing
      [File(<<>>) EXCEPT !.columns_ok = FALSE] }

Uploads(asset_id) ==
    {None} \cup {Some([filename |-> CanonicalName(asset_id), content |-> f]) : f \in FilePool}

\* what earlier requests left in data/historical_logs
PriorDirs ==
    { EmptyDict,
      [fname \in {CanonicalName(<<"p", "1", "0">>)} |->
          File(<<Run(1, MinSamples + ExtraRows, AllSet(3))>>)] }

Forms ==
    UNION { { [asset_id |-> a, current_total_hours |-> h, sensors |-> sp,
               historical_logs |-> u, pump_image |-> img] :
              h \in HoursPool, sp \in SensorPayloads, u \in Uploads(a),
              img \in {None, Some("pump.jpg")} } : a \in AssetIds }

PredictValues == {0, 90, 100}
PredictOutcomes == {None} \cup {Some(v) : v \in PredictValues}

EmptyDb ==
    [service_schedules |-> <<>>, work_done_logs |-> <<>>,
     maintenance_requests |-> <<>>]

StockedDb ==
    [service_schedules |-> << <<"oil", 100>>, <<"seal", 40>> >>,
     work_done_logs |->
        <<[task_name |-> "seal", timestamp |-> 1, hours_at_service |-> 70],
          [task_name |-> "seal", timestamp |-> 2, hours_at_service |-> 50]>>,
     maintenance_requests |->
        <<[description |-> "leak at seal", priority |-> "HIGH", status |-> "OPEN"]>>]

DbOutcomes == {None, Some(EmptyDb), Some(StockedDb)}

ManualOutcomes == {"retrieval_raises", "llm_raises", "invalid_json", "json"}

ManualJson ==
    [normal_range |-> "Max Pressure: 60 psi", causes |-> "Vibration: Loose magnet",
     warranty |-> "12 months"]

VisionOutcomes ==
    {"image_unreadable", "empty_image", "client_raises", "call_fails", "summary"}

----------------------------------------------------------------------------
(* One /analyze request *)

IdleSweep ==
    /\ runs_left = 0
    /\ final_labels = {}
    /\ nonzero_at_fusion = {}

IdlePair ==
    /\ reqs = <<>>
    /\ alone = <<>>
    /\ loads = 0
    /\ model_file = TRUE
    /\ IdleSweep

IdleFuse ==
    /\ mode = "idle"
    /\ agent = EmptyDict
    /\ report = EmptyDict
    /\ probs = <<>>
    /\ labels = <<>>
    /\ toon_in = <<>>
    /\ toon_out = <<>>
    /\ IdlePair

Init ==
    /\ pc = "analyze"
    /\ form \in Forms
    /\ logs_dir \in PriorDirs
    /\ _model \in {None, Some("booster")}
    /\ state = EmptyDict
    /\ request = EmptyDict
    /\ trace = <<>>
    /\ result_state = EmptyDict
    /\ response = EmptyDict
    /\ store \in DbOutcomes
    /\ IdleFuse

\* analyze, up to the call of run_agent
analyze_begin ==
    /\ pc = "analyze"
    /\ logs_dir' = SaveUpload(logs_dir, form.historical_logs)
    /\ request' = AnalyzeRequest(form)
    /\ pc' = "run_agent"
    /\ UNCHANGED <<state, trace, _model, form, result_state, response, store>>
    /\ UNCHANGED fuseVars

\* run_agent: initial = state.model_dump(); the graph starts
run_agent_begin ==
    /\ pc = "run_agent"
    /\ state' = request
    /\ pc' = EntryPoint
    /\ UNCHANGED <<request, trace, logs_dir, _model, form, result_state, response, store>>
    /\ UNCHANGED fuseVars

sensor_node ==
    /\ pc = "sensor_node"
    /\ trace' = Append(trace, "sensor_node")
    /\ \E load_ok \in BOOLEAN, prediction \in PredictOutcomes :
        LET model == _load_model(_model, load_ok)
            raises == SensorReachesModel(state) /\ ~IsNone(model) /\ IsNone(prediction)
        IN  /\ _model' = IF SensorReachesModel(state) THEN model ELSE _model
            /\ IF raises
               THEN pc' = "Raised" /\ state' = state
               ELSE pc' = Edges[pc] /\ state' = orch_sensor_node(state, model, prediction)
    /\ UNCHANGED <<request, logs_dir, form, result_state, response, store>>
    /\ UNCHANGED fuseVars

service_age_node ==
    /\ pc = "service_age_node"
    /\ trace' = Append(trace, "service_age_node")
    /\ state' = orch_service_age_node(state, store, None)
    /\ pc' = Edges[pc]
    /\ UNCHANGED <<request, logs_dir, _model, form, result_state, response, store>>
    /\ UNCHANGED fuseVars

feature_node ==
    /\ pc = "feature_node"
    /\ trace' = Append(trace, "feature_node")
    /\ \E last \in DOMAIN logs_dir \cup {CanonicalName(FeaturePumpId(state))} :
        /\ Strays(logs_dir, FeaturePumpId(state)) # {}
            => last \in Strays(logs_dir, FeaturePumpId(state))
        /\ logs_dir' = Handshake(logs_dir, FeaturePumpId(state), last)
    /\ state' = orch_feature_node(state, logs_dir')
    /\ pc' = Edges[pc]
    /\ UNCHANGED <<request, _model, form, result_state, response, store>>
    /\ UNCHANGED fuseVars

manual_context_node_step ==
    /\ pc = "manual_context_node"
    /\ trace' = Append(trace, "manual_context_node")
    /\ \E outcome \in ManualOutcomes :
        IF outcome \in {"retrieval_raises", "llm_raises"}
        THEN pc' = "Raised" /\ state' = state
        ELSE /\ pc' = Edges[pc]
             /\ state' = manual_context_node(state,
                    IF outcome = "json" THEN Some(ManualJson) ELSE None)
    /\ UNCHANGED <<request, logs_dir, _model, form, result_state, response, store>>
    /\ UNCHANGED fuseVars

vision_node ==
    /\ pc = "vision_node"
    /\ trace' = Append(trace, "vision_node")
    /\ \E outcome \in VisionOutcomes :
        IF AgentStateInvalid(state)
        THEN pc' = "Raised" /\ state' = state
        ELSE IF VisionSkips(state, IF outcome = "empty_image" THEN "" ELSE "b64")
        THEN pc' = Edges[pc] /\ state' = state
        ELSE IF outcome \in {"image_unreadable", "client_raises"}
        THEN pc' = "Raised" /\ state' = state
        ELSE /\ pc' = Edges[pc]
             /\ state' = vision_node_result(state,
                    IF outcome = "summary" THEN "The image appears mostly normal" ELSE "")
    /\ UNCHANGED <<request, logs_dir, _model, form, result_state, response, store>>
    /\ UNCHANGED fuseVars

fusion_node ==
    /\ pc = "fusion_node"
    /\ trace' = Append(trace, "fusion_node")
    /\ state' = fusion_node_result(state)
    /\ pc' = Edges[pc]
    /\ UNCHANGED <<request, logs_dir, _model, form, result_state, response, store>>
    /\ UNCHANGED fuseVars

\* run_agent, after the graph has finished
run_agent_end ==
    /\ pc = END
    /\ logs_dir' = Cleanup(logs_dir, request)
    /\ IF AgentStateInvalid(Reassert(state, request))
       THEN pc' = "Raised" /\ result_state' = result_state
       ELSE pc' = "returned" /\ result_state' = AgentState(Reassert(state, request))
    /\ UNCHANGED <<state, request, trace, _model, form, response, store>>
    /\ UNCHANGED fuseVars

\* analyze, after run_agent has returned
analyze_end ==
    /\ pc = "returned"
    /\ response' = AnalyzeResponse(result_state)
    /\ pc' = "responded"
    /\ UNCHANGED <<state, request, trace, logs_dir, _model, form, result_state, store>>
    /\ UNCHANGED fuseVars

Next ==
    \/ analyze_begin
    \/ run_agent_begin
    \/ sensor_node
    \/ service_age_node
    \/ feature_node
    \/ manual_context_node_step
    \/ vision_node
    \/ fusion_node
    \/ run_agent_end
    \/ analyze_end

Spec == Init /\ [][Next]_vars

----------------------------------------------------------------------------
(* fuse_and_explain and get_risk_threshold_label on bounded inputs *)

ScoreValues == {(i * 100) \div ScoreGrid : i \in 0..ScoreGrid} \cup {60, 90}

VisionResults ==
    {None} \cup
    {Some([visual_risk_score |-> v, has_leaks |-> f[1], has_cracks |-> f[2]]) :
        v \in ScoreValues, f \in {<<FALSE, FALSE>>, <<TRUE, FALSE>>, <<FALSE, TRUE>>}}

OptionalScores == {None} \cup {Some(v) : v \in ScoreValues}

\* the object handed to fuse_and_explain: the AgentState attributes, and the
\* attributes service_age_risk_score / transactional_risk_score when the
\* caller's object carries them (sa, tr not None)
FuseInput(s, v, h, sa, tr, overdue) ==
    LET base == AgentState(
                    [pump_id |-> Some(<<"p", "1">>), current_total_hours |-> Some(100),
                     sensor_risk_score |-> s, vision_result |-> v,
                     history_risk_score |-> h,
                     history_result |->
                        IF overdue THEN Some([overdue_tasks |-> <<"oil">>]) ELSE None,
                     triggered_sensors |->
                        IF IsNone(h) THEN <<>> ELSE <<"Vibration">>])
        b1 == IF IsNone(sa) THEN base ELSE Put(base, "service_age_risk_score", Val(sa))
    IN  IF IsNone(tr) THEN b1 ELSE Put(b1, "transactional_risk_score", Val(tr))

FuseInputs ==
    {FuseInput(s, v, h, sa, tr, o) :
        s \in ScoreValues, v \in VisionResults, h \in OptionalScores,
        sa \in OptionalScores, tr \in OptionalScores, o \in BOOLEAN}

Prob(p) == [n |-> p, d |-> 100]

Without(d, key) == [k \in DOMAIN d \ {key} |-> d[k]]

\* running states reaching fusion_node: complete ones, and ones whose pump_id
\* or current_total_hours is null or missing; with and without the keys the
\* earlier stages add
BoundaryStates ==
    LET complete == {FuseInput(sc, None, h, None, None, FALSE) :
                        sc \in ScoreValues, h \in OptionalScores}
        sensed == complete \cup
                  {Put(c, "sensor_input",
                       Some([vibration |-> Some(9), temperature |-> Some(5),
                             pressure |-> Some(7)])) : c \in complete}
        extended == sensed \cup
                    {Put(Put(c, "manual_context", Some(FallbackContext)),
                         "anomaly_query", Some(<<"feature_node">>)) : c \in sensed}
    IN  extended
        \cup {Put(c, "pump_id", None) : c \in extended}
        \cup {Without(c, "pump_id") : c \in extended}
        \cup {Put(c, "current_total_hours", None) : c \in extended}
        \cup {Without(c, "current_total_hours") : c \in extended}

IdlePipe ==
    /\ pc = "idle"
    /\ state = EmptyDict
    /\ request = EmptyDict
    /\ trace = <<>>
    /\ logs_dir = EmptyDict
    /\ _model = None
    /\ form = EmptyDict
    /\ result_state = EmptyDict
    /\ response = EmptyDict
    /\ store = None

\* most entries of an available_modalities list
MaxModalities == 3

\* class Modality(str, Enum)
Modality == {"sensor", "text", "vision", "historical", "history"}

\* what a list of modalities may hold: members of Modality, and plain strings
ModalityPool ==
    {[type |-> "Modality", value |-> m] : m \in Modality}
    \cup {[type |-> "str", value |-> m] : m \in {"Sensor", "audio"}}

\* str.lower(), on the plain strings of ModalityPool
LowerName(m) == IF m = "Sensor" THEN "sensor" ELSE m

\* m.value.lower() if hasattr(m, 'value') else str(m).lower()
NormModality(m) ==
    IF m.type = "Modality" THEN LowerName(m.value) ELSE LowerName(m.value)

\* graph.add_node(...)
RegisteredNodes ==
    {"sensor_node", "service_age_node", "feature_node", "manual_context_node",
     "vision_node", "fusion_node"}

\* orchestrator.route_modalities
route_modalities(st) ==
    LET modalities == Get(st, "available_modalities", <<>>)
        norm_modalities == {NormModality(modalities[i]) : i \in 1..Len(modalities)}
        nodes ==
            (IF "sensor" \in norm_modalities THEN <<"sensor_node">> ELSE <<>>)
            \o (IF "text" \in norm_modalities THEN <<"text_node">> ELSE <<>>)
            \o (IF "vision" \in norm_modalities THEN <<"vision_node">> ELSE <<>>)
            \o (IF "historical" \in norm_modalities \/ "history" \in norm_modalities
                THEN <<"feature_node">> ELSE <<>>)
    IN  IF nodes # <<>> THEN nodes ELSE <<"fusion_node">>

\* the state dicts given to route_modalities
RouteStates ==
    {EmptyDict}
    \cup {[k \in {"available_modalities"} |-> l] :
            l \in UNION {[1..n -> ModalityPool] : n \in 0..MaxModalities}}

\* most operating hours given to the service gap tool
MaxHours == 4

\* class ServiceGapInput, interval > 0
ServiceGapInput ==
    [current_hours : 0..MaxHours, last_service_hours : 0..MaxHours,
     interval : 1..MaxHours]

\* round(x, 3) of the quotient n / d, d > 0, as a number of thousandths
Round3(n, d) == (2000 * n + d) \div (2 * d)

\* tools.calculate_service_gap
calculate_service_gap(input) ==
    LET used == input.current_hours - input.last_service_hours
    IN  [hours_remaining |->
            IF input.interval - used > 0 THEN input.interval - used ELSE 0,
         is_overdue |-> used >= input.interval,
         percentage_of_life_used |->
            IF input.interval > 0
            THEN (IF used < input.interval THEN Round3(used, input.interval) ELSE 1000)
            ELSE 0]

InitFuse ==
    /\ IdlePipe
    /\ \/ /\ mode = "fuse"
          /\ agent \in FuseInputs
          /\ probs = <<>>
       \/ /\ mode = "label"
          /\ agent = EmptyDict
          /\ probs \in {<<Prob(p), Prob(q)>> : p, q \in 0..100}
       \/ /\ mode = "boundary"
          /\ agent \in BoundaryStates
          /\ probs = <<>>
       \/ /\ mode = "route"
          /\ agent \in RouteStates
          /\ probs = <<>>
       \/ /\ mode = "gap"
          /\ agent \in ServiceGapInput
          /\ probs = <<>>
    /\ report = EmptyDict
    /\ labels = <<>>
    /\ toon_in = <<>>
    /\ toon_out = <<>>
    /\ IdlePair

Fuse ==
    /\ mode = "fuse"
    /\ report' = fuse_and_explain(agent)
    /\ mode' = "fused"
    /\ UNCHANGED <<agent, probs, labels, toon_in, toon_out>>
    /\ UNCHANGED <<pairVars, sweepVars>>
    /\ UNCHANGED pipeVars

Label ==
    /\ mode = "label"
    /\ labels' = <<get_risk_threshold_label(probs[1]), get_risk_threshold_label(probs[2])>>
    /\ mode' = "labelled"
    /\ UNCHANGED <<agent, probs, report, toon_in, toon_out>>
    /\ UNCHANGED <<pairVars, sweepVars>>
    /\ UNCHANGED pipeVars

\* orchestrator.fusion_node applied to a running state
FusionBoundary ==
    /\ mode = "boundary"
    /\ report' = fusion_node_result(agent)
    /\ mode' = "merged"
    /\ UNCHANGED <<agent, probs, labels, toon_in, toon_out>>
    /\ UNCHANGED <<pairVars, sweepVars>>
    /\ UNCHANGED pipeVars

\* one stage of the graph applied to a running state: the partial update the
\* stage's function returns, and what the orchestrator wrapper hands on
StageMerge ==
    /\ mode = "boundary"
    /\ \/ \E model \in {None, Some("booster")}, prediction \in {Some(v) : v \in PredictValues} :
            report' = [stage |-> "sensor_node",
                       update |-> inner_sensor_node(agent, model, prediction),
                       merged |-> orch_sensor_node(agent, model, prediction)]
       \/ \E db \in DbOutcomes :
            report' = [stage |-> "service_age_node",
                       update |-> inner_service_age_node(agent, db, None),
                       merged |-> orch_service_age_node(agent, db, None)]
       \/ /\ ~AgentStateInvalid(agent)
          /\ \E dir \in PriorDirs :
                report' = [stage |-> "feature_node",
                           update |-> inner_feature_node(agent, dir),
                           merged |-> orch_feature_node(agent, dir)]
    /\ mode' = "stage_merged"
    /\ UNCHANGED <<agent, probs, labels, toon_in, toon_out>>
    /\ UNCHANGED <<pairVars, sweepVars>>
    /\ UNCHANGED pipeVars

\* the state a request of another asset gave to run_agent
OtherRequest ==
    AgentState([pump_id |-> Some(<<"p", "1", "0">>), current_total_hours |-> Some(150)])

\* run_agent after the graph, the graph result being the running state:
\* the identifying fields re-asserted, then AgentState(**result)
ReturnBoundary ==
    /\ mode = "boundary"
    /\ LET result == Reassert(agent, OtherRequest)
       IN  report' = IF AgentStateInvalid(result)
                     THEN [raised |-> TRUE, result |-> EmptyDict]
                     ELSE [raised |-> FALSE, result |-> AgentState(result)]
    /\ mode' = "returned"
    /\ UNCHANGED <<agent, probs, labels, toon_in, toon_out>>
    /\ UNCHANGED <<pairVars, sweepVars>>
    /\ UNCHANGED pipeVars

\* route_modalities applied to a state dict
Route ==
    /\ mode = "route"
    /\ report' = [nodes |-> route_modalities(agent)]
    /\ mode' = "routed"
    /\ UNCHANGED <<agent, probs, labels, toon_in, toon_out>>
    /\ UNCHANGED <<pairVars, sweepVars>>
    /\ UNCHANGED pipeVars

\* calculate_service_gap and the evaluator's rule applied to the same task
ServiceGap ==
    /\ mode = "gap"
    /\ report' =
          [tool |-> calculate_service_gap(agent),
           evaluator |->
              IsOverdue((agent.current_hours - agent.last_service_hours)
                        - agent.interval)]
    /\ mode' = "gap_done"
    /\ UNCHANGED <<agent, probs, labels, toon_in, toon_out>>
    /\ UNCHANGED <<pairVars, sweepVars>>
    /\ UNCHANGED pipeVars

NextFuse ==
    \/ Fuse
    \/ Label
    \/ FusionBoundary
    \/ StageMerge
    \/ ReturnBoundary
    \/ Route
    \/ ServiceGap

SpecFuse == InitFuse /\ [][NextFuse]_vars

----------------------------------------------------------------------------
(* utils/toon.py.  A text is a sequence of one-character strings.  A Python *)
(* value is a record of one field, named after its type, holding its        *)
(* content (an int as itself, a float as a number of thousandths, a str as  *)
(* a text, a list as a sequence of values, a dict as the sequence of its    *)
(* <<key, value>> items).                                                   *)

PAIR_SEP == "|"
KV_SEP == ":"
LIST_SEP == "~"
NEST_OPEN == "("
NEST_CLOSE == ")"

PyNone == [none |-> 0]
PyBool(b) == [bool |-> b]
PyInt(n) == [int |-> n]
PyFloat(thousandths) == [float |-> thousandths]
PyStr(text) == [str |-> text]
PyList(items) == [list |-> items]
PyDict(items) == [dict |-> items]

\* type(value).__name__ and the content of the value
TypeOf(value) == CHOOSE k \in DOMAIN value : TRUE
Content(value) == value[TypeOf(value)]

DigitChars == <<"0", "1", "2", "3", "4", "5", "6", "7", "8", "9">>
LowerChars ==
    <<"a", "b", "c", "d", "e", "f", "g", "h", "i", "j", "k", "l", "m",
      "n", "o", "p", "q", "r", "s", "t", "u", "v", "w", "x", "y", "z">>
UpperChars ==
    <<"A", "B", "C", "D", "E", "F", "G", "H", "I", "J", "K", "L", "M",
      "N", "O", "P", "Q", "R", "S", "T", "U", "V", "W", "X", "Y", "Z">>

IsDigit(c) == \E i \in 1..Len(DigitChars) : DigitChars[i] = c
IsLower(c) == \E i \in 1..Len(LowerChars) : LowerChars[i] = c
IsUpper(c) == \E i \in 1..Len(UpperChars) : UpperChars[i] = c
DigitValue(c) == (CHOOSE i \in 1..Len(DigitChars) : DigitChars[i] = c) - 1
ToUpper(c) ==
    IF IsLower(c) THEN UpperChars[CHOOSE i \in 1..Len(LowerChars) : LowerChars[i] = c]
    ELSE c
ToLower(c) ==
    IF IsUpper(c) THEN LowerChars[CHOOSE i \in 1..Len(UpperChars) : UpperChars[i] = c]
    ELSE c

\* str(n), n >= 0
RECURSIVE str_int(_)
str_int(n) ==
    IF n < 10 THEN <<DigitChars[n + 1]>>
    ELSE str_int(n \div 10) \o <<DigitChars[(n % 10) + 1]>>

RECURSIVE StripTrailingZeros(_)
StripTrailingZeros(digits) ==
    IF digits # <<>> /\ digits[Len(digits)] = "0"
    THEN StripTrailingZeros(SubSeq(digits, 1, Len(digits) - 1))
    ELSE digits

\* a number of thousandths rounded to 4 significant digits (0 <= n < 100000)
Round4(n) == IF n >= 10000 THEN RoundDiv(n, 10) * 10 ELSE n

\* f"{value:.4g}" of the float n/1000
format_4g(n) ==
    LET r == Round4(n)
        frac == r % 1000
        decimals == StripTrailingZeros(
                        <<DigitChars[(frac \div 100) + 1],
                          DigitChars[((frac \div 10) % 10) + 1],
                          DigitChars[(frac % 10) + 1]>>)
    IN  str_int(r \div 1000) \o (IF decimals = <<>> THEN <<>> ELSE <<".">> \o decimals)

\* p.capitalize()
capitalize(part) ==
    [i \in 1..Len(part) |-> IF i = 1 THEN ToUpper(part[i]) ELSE ToLower(part[i])]

\* text.split(sep)
RECURSIVE SplitOn(_, _)
SplitOn(text, sep) ==
    IF \A i \in 1..Len(text) : text[i] # sep THEN <<text>>
    ELSE LET at == CHOOSE i \in 1..Len(text) :
                        text[i] = sep /\ \A j \in 1..(i - 1) : text[j] # sep
         IN  <<SubSeq(text, 1, at - 1)>> \o SplitOn(SubSeq(text, at + 1, Len(text)), sep)

RECURSIVE Join(_, _)
Join(texts, sep) ==
    IF texts = <<>> THEN <<>>
    ELSE IF Len(texts) = 1 THEN texts[1]
    ELSE texts[1] \o <<sep>> \o Join(Tail(texts), sep)

\* "".join(texts)
RECURSIVE Concat(_)
Concat(texts) == IF texts = <<>> THEN <<>> ELSE Head(texts) \o Concat(Tail(texts))

_snake_to_short_pascal(key) ==
    LET parts == SplitOn(key, "_")
    IN  Concat([i \in 1..Len(parts) |->
                capitalize(SubSeq(parts[i], 1, IF Len(parts[i]) <= 4 THEN Len(parts[i]) ELSE 4))])

\* _CAMEL_RE_1 and _CAMEL_RE_2: an underscore goes before a capital that a
\* lower-case letter follows, or that follows a lower-case letter or digit
RECURSIVE InsertUnderscores(_, _)
InsertUnderscores(key, i) ==
    IF i > Len(key) THEN <<>>
    ELSE (IF /\ i > 1
             /\ IsUpper(key[i])
             /\ \/ i < Len(key) /\ IsLower(key[i + 1])
                \/ IsLower(key[i - 1]) \/ IsDigit(key[i - 1])
          THEN <<"_">> ELSE <<>>)
         \o <<key[i]>> \o InsertUnderscores(key, i + 1)

_pascal_to_snake(key) ==
    LET u == InsertUnderscores(key, 1) IN [i \in 1..Len(u) |-> ToLower(u[i])]

\* "value is None or value == '' or value == [] or value == {}"
IsEmptyValue(value) ==
    \/ TypeOf(value) = "none"
    \/ TypeOf(value) \in {"str", "list", "dict"} /\ Content(value) = <<>>

RECURSIVE _encode_value(_)
RECURSIVE encode_dict(_)

_encode_value(value) ==
    CASE TypeOf(value) = "none" -> <<>>
      [] TypeOf(value) = "bool" -> IF Content(value) THEN <<"1">> ELSE <<"0">>
      [] TypeOf(value) = "float" -> format_4g(Content(value))
      [] TypeOf(value) = "int" -> str_int(Content(value))
      [] TypeOf(value) = "list" ->
            Join([i \in 1..Len(Content(value)) |-> _encode_value(Content(value)[i])], LIST_SEP)
      [] TypeOf(value) = "dict" -> <<NEST_OPEN>> \o encode_dict(Content(value)) \o <<NEST_CLOSE>>
      [] TypeOf(value) = "str" -> Content(value)

RECURSIVE EncodeParts(_)
EncodeParts(items) ==
    IF items = <<>> THEN <<>>
    ELSE (IF IsEmptyValue(Head(items)[2]) THEN <<>>
          ELSE << _snake_to_short_pascal(Head(items)[1]) \o <<KV_SEP>>
                  \o _encode_value(Head(items)[2]) >>)
         \o EncodeParts(Tail(items))

\* encode_dict(data), data the items of the dict
encode_dict(items) == Join(EncodeParts(items), PAIR_SEP)

\* encode(obj)
encode(obj) == encode_dict(Content(obj))

\* str.strip()
RECURSIVE strip(_)
strip(text) ==
    IF text # <<>> /\ Head(text) = " " THEN strip(Tail(text))
    ELSE IF text # <<>> /\ text[Len(text)] = " "
    THEN strip(SubSeq(text, 1, Len(text) - 1))
    ELSE text

AllDigits(text) == text # <<>> /\ \A i \in 1..Len(text) : IsDigit(text[i])

RECURSIVE parse_int(_)
parse_int(text) ==
    IF text = <<>> THEN 0
    ELSE parse_int(SubSeq(text, 1, Len(text) - 1)) * 10 + DigitValue(text[Len(text)])

\* float(text) succeeds, for the decimal texts of up to three decimals
IsDecimal(text) ==
    LET parts == SplitOn(text, ".")
    IN  /\ Len(parts) = 2
        /\ parts[1] = <<>> \/ AllDigits(parts[1])
        /\ parts[2] = <<>> \/ AllDigits(parts[2])
        /\ parts[1] # <<>> \/ parts[2] # <<>>
        /\ Len(parts[2]) <= 3

parse_thousandths(text) ==
    LET parts == SplitOn(text, ".")
        padded == parts[2] \o [i \in 1..(3 - Len(parts[2])) |-> "0"]
    IN  parse_int(parts[1]) * 1000 + parse_int(padded)

_try_numeric(value) ==
    IF AllDigits(value) THEN PyInt(parse_int(value))
    ELSE IF IsDecimal(value) THEN PyFloat(parse_thousandths(value))
    ELSE PyStr(value)

\* _split_respecting_nesting(s), from position i on
RECURSIVE SplitPairs(_, _, _, _)
SplitPairs(text, i, depth, current) ==
    IF i > Len(text) THEN (IF current # <<>> THEN <<current>> ELSE <<>>)
    ELSE IF text[i] = NEST_OPEN THEN SplitPairs(text, i + 1, depth + 1, Append(current, text[i]))
    ELSE IF text[i] = NEST_CLOSE THEN SplitPairs(text, i + 1, depth - 1, Append(current, text[i]))
    ELSE IF text[i] = PAIR_SEP /\ depth = 0
    THEN <<current>> \o SplitPairs(text, i + 1, depth, <<>>)
    ELSE SplitPairs(text, i + 1, depth, Append(current, text[i]))

_split_respecting_nesting(text) == SplitPairs(text, 1, 0, <<>>)

\* result[key] = value on the items of a dict
SetItem(items, key, value) ==
    IF \E i \in 1..Len(items) : items[i][1] = key
    THEN [i \in 1..Len(items) |-> IF items[i][1] = key THEN <<key, value>> ELSE items[i]]
    ELSE Append(items, <<key, value>>)

\* pair.partition(KV_SEP)
KeyOf(pair) == SplitOn(pair, KV_SEP)[1]
ValueOf(pair) == SubSeq(pair, Len(KeyOf(pair)) + 2, Len(pair))

RECURSIVE decode(_)
RECURSIVE _decode_value(_)
RECURSIVE DecodePairs(_, _)

_decode_value(raw) ==
    IF raw = <<>> THEN PyNone
    ELSE IF raw[1] = NEST_OPEN /\ raw[Len(raw)] = NEST_CLOSE
    THEN decode(SubSeq(raw, 2, Len(raw) - 1))
    ELSE IF \E i \in 1..Len(raw) : raw[i] = LIST_SEP
    THEN PyList([i \in 1..Len(SplitOn(raw, LIST_SEP)) |->
                    _try_numeric(SplitOn(raw, LIST_SEP)[i])])
    ELSE _try_numeric(raw)

DecodePairs(pairs, result) ==
    IF pairs = <<>> THEN result
    ELSE IF \A i \in 1..Len(Head(pairs)) : Head(pairs)[i] # KV_SEP
    THEN DecodePairs(Tail(pairs), result)
    ELSE DecodePairs(Tail(pairs),
                     SetItem(result, _pascal_to_snake(strip(KeyOf(Head(pairs)))),
                             _decode_value(strip(ValueOf(Head(pairs))))))

\* decode(toon_str): the function has no raise statement and calls nothing
\* that raises on a text, so its outcome is always a dict
decode(toon_str) ==
    IF strip(toon_str) = <<>> THEN PyDict(<<>>)
    ELSE PyDict(DecodePairs(_split_respecting_nesting(toon_str), <<>>))


----------------------------------------------------------------------------
(* encode and decode on bounded inputs *)

\* longest list in a record given to encode
MaxItems == 2
\* longest text given to decode
MaxText == 5

ListScalars == {PyInt(7), PyFloat(500), PyStr(<<"a">>)}

ListValues == {PyList(l) : l \in UNION {[1..n -> ListScalars] : n \in 0..MaxItems}}

ScalarValues ==
    {PyNone, PyBool(TRUE), PyBool(FALSE), PyInt(0), PyInt(42), PyFloat(500),
     PyFloat(5000), PyFloat(12345), PyStr(<<>>), PyStr(<<"o", "k">>),
     PyStr(<<"7">>), PyStr(<<"a", "|", "b">>)}

NestedValues ==
    {PyDict(<<>>)} \cup
    {PyDict(<< <<<<"a">>, PyInt(1)>>, <<<<"b", "_", "c">>, v>> >>) :
        v \in {PyNone, PyStr(<<"o", "k">>), PyList(<<PyInt(7), PyInt(7)>>),
               PyList(<<PyInt(7)>>)}}

RecordValues == ScalarValues \cup ListValues \cup NestedValues

\* records of two entries, their aliases PumpId and TempC
Records ==
    {PyDict(<< <<<<"p", "u", "m", "p", "_", "i", "d">>, v1>>,
               <<<<"t", "e", "m", "p", "e", "r", "a", "t", "u", "r", "e", "_", "c">>, v2>> >>) :
        v1 \in RecordValues, v2 \in RecordValues}

TextChars == {"A", KV_SEP, "1", NEST_OPEN, NEST_CLOSE, PAIR_SEP}

Texts == UNION {[1..n -> TextChars] : n \in 0..MaxText}

InitCodec ==
    /\ IdlePipe
    /\ agent = EmptyDict
    /\ report = EmptyDict
    /\ probs = <<>>
    /\ labels = <<>>
    /\ \/ mode = "record" /\ toon_in \in Records
       \/ mode = "text" /\ toon_in \in Texts
    /\ toon_out = <<>>
    /\ IdlePair

\* text = encode(record); decode(text)
RoundTrip ==
    /\ mode = "record"
    /\ toon_out' = [text |-> encode(toon_in), record |-> decode(encode(toon_in))]
    /\ mode' = "round_tripped"
    /\ UNCHANGED <<agent, report, probs, labels, toon_in>>
    /\ UNCHANGED <<pairVars, sweepVars>>
    /\ UNCHANGED pipeVars

\* decode(text); raised is the exception that left decode, None without one
Decode ==
    /\ mode = "text"
    /\ toon_out' = [raised |-> None, record |-> decode(toon_in)]
    /\ mode' = "decoded"
    /\ UNCHANGED <<agent, report, probs, labels, toon_in>>
    /\ UNCHANGED <<pairVars, sweepVars>>
    /\ UNCHANGED pipeVars

NextCodec == RoundTrip \/ Decode

SpecCodec == InitCodec /\ [][NextCodec]_vars

----------------------------------------------------------------------------
(* Two /analyze requests in one process.  The event loop switches between  *)
(* them where a coroutine awaits: after the uploads are saved and between   *)
(* the stages of the graph.  data/historical_logs, the module-level _model  *)
(* and the relational store are shared; everything else is per request.     *)

Requests == {"a", "b"}

PairForms ==
    { f \in Forms : /\ f.current_total_hours = 100
                    /\ IsNone(f.pump_image)
                    /\ \/ IsNone(f.historical_logs)
                       \/ Val(f.historical_logs).content
                              = File(<<Run(1, MinSamples + ExtraRows, AllSet(5))>>) }

\* what the collaborators of one stage call give back
PairOutcomes ==
    [prediction : {Some(90)}, manual : {"invalid_json"}, vision : {"summary"}]

NewRequest(f) ==
    [pc |-> "analyze", form |-> f, request |-> EmptyDict, state |-> EmptyDict,
     response |-> EmptyDict]

Ended(q) == q.pc \in {"responded", "Raised"}

\* The two runs of a request: on the data it shares with the other request,
\* and on its own copy of that data.
Runs == {"shared", "own"}

RunQ(r, i) == IF i = "shared" THEN reqs[r] ELSE alone[r].q
RunDir(r, i) == IF i = "shared" THEN logs_dir ELSE alone[r].dir
RunModel(r, i) == IF i = "shared" THEN _model ELSE alone[r].model

\* feature_node: the entries os.scandir may yield last
LastChoices(q, dir) ==
    IF q.pc = "feature_node"
    THEN { last \in DOMAIN dir \cup {CanonicalName(FeaturePumpId(q.state))} :
             Strays(dir, FeaturePumpId(q.state)) # {}
                => last \in Strays(dir, FeaturePumpId(q.state)) }
    ELSE {None}

\* What a step leaves behind: the request, the directory, the model handle and
\* the number of times the model file was opened.
Same(q, dir, model) == [q |-> q, dir |-> dir, model |-> model, opened |-> 0]
Raise(q, dir, model) == Same([q EXCEPT !.pc = "Raised"], dir, model)
Goes(q, dir, model, st) == Same([q EXCEPT !.pc = Edges[q.pc], !.state = st], dir, model)

\* analyze up to the first stage of the graph
AnalyzeStage(q, dir, model) ==
    Same([q EXCEPT !.pc = EntryPoint,
                   !.request = AnalyzeRequest(q.form),
                   !.state = AnalyzeRequest(q.form)],
         SaveUpload(dir, q.form.historical_logs), model)

SensorStage(q, dir, model, prediction) ==
    LET reaches == SensorReachesModel(q.state)
        handle == _load_model(model, model_file)
        kept == IF reaches THEN handle ELSE model
        after == IF reaches /\ ~IsNone(handle) /\ IsNone(prediction)
                 THEN Raise(q, dir, kept)
                 ELSE Goes(q, dir, kept, orch_sensor_node(q.state, handle, prediction))
    IN  [after EXCEPT !.opened = IF reaches /\ IsNone(model) THEN 1 ELSE 0]

ServiceAgeStage(q, dir, model) ==
    Goes(q, dir, model, orch_service_age_node(q.state, store, None))

FeatureStage(q, dir, model, last) ==
    LET moved == Handshake(dir, FeaturePumpId(q.state), last)
    IN  Goes(q, moved, model, orch_feature_node(q.state, moved))

ManualContextStage(q, dir, model, outcome) ==
    IF outcome \in {"retrieval_raises", "llm_raises"}
    THEN Raise(q, dir, model)
    ELSE Goes(q, dir, model,
              manual_context_node(q.state,
                  IF outcome = "json" THEN Some(ManualJson) ELSE None))

VisionStage(q, dir, model, outcome) ==
    IF AgentStateInvalid(q.state) THEN Raise(q, dir, model)
    ELSE IF VisionSkips(q.state, IF outcome = "empty_image" THEN "" ELSE "b64")
    THEN Goes(q, dir, model, q.state)
    ELSE IF outcome \in {"image_unreadable", "client_raises"}
    THEN Raise(q, dir, model)
    ELSE Goes(q, dir, model,
              vision_node_result(q.state,
                  IF outcome = "summary" THEN "The image appears mostly normal" ELSE ""))

FusionStage(q, dir, model) == Goes(q, dir, model, fusion_node_result(q.state))

\* run_agent after the graph, and analyze's response
RespondStage(q, dir, model) ==
    IF AgentStateInvalid(Reassert(q.state, q.request))
    THEN Raise(q, Cleanup(dir, q.request), model)
    ELSE Same([q EXCEPT !.pc = "responded",
                        !.response = AnalyzeResponse(
                            AgentState(Reassert(q.state, q.request)))],
              Cleanup(dir, q.request), model)

InitPair ==
    /\ pc = "idle"
    /\ state = EmptyDict
    /\ request = EmptyDict
    /\ trace = <<>>
    /\ form = EmptyDict
    /\ result_state = EmptyDict
    /\ response = EmptyDict
    /\ mode = "idle"
    /\ agent = EmptyDict
    /\ report = EmptyDict
    /\ probs = <<>>
    /\ labels = <<>>
    /\ toon_in = <<>>
    /\ toon_out = <<>>
    /\ logs_dir \in PriorDirs
    /\ _model \in {None, Some("booster")}
    /\ model_file \in BOOLEAN
    /\ store \in {Some(StockedDb)}
    /\ loads = 0
    /\ reqs \in [Requests -> {NewRequest(f) : f \in PairForms}]
    /\ alone = [r \in Requests |-> [q |-> reqs[r], dir |-> logs_dir, model |-> _model]]
    /\ IdleSweep

\* request r has run to its next suspension point: runs holds what the step
\* left behind on the shared data and on the request's own copy
Commit(r, runs) ==
    /\ reqs' = [reqs EXCEPT ![r] = runs["shared"].q]
    /\ logs_dir' = runs["shared"].dir
    /\ _model' = runs["shared"].model
    /\ loads' = loads + runs["shared"].opened
    /\ alone' = [alone EXCEPT ![r] = [q |-> runs["own"].q, dir |-> runs["own"].dir,
                                      model |-> runs["own"].model]]
    /\ UNCHANGED <<pc, state, request, trace, form, result_state, response, store,
                   model_file, mode, agent, report, probs, labels, toon_in, toon_out,
                   runs_left, final_labels, nonzero_at_fusion>>

\* is request r, in both of its runs, at position at
At(r, at) == reqs[r].pc = at /\ alone[r].q.pc = at

pair_analyze ==
    \E r \in Requests :
        /\ At(r, "analyze")
        /\ Commit(r, [i \in Runs |-> AnalyzeStage(RunQ(r, i), RunDir(r, i), RunModel(r, i))])

pair_sensor_node ==
    \E r \in Requests, o \in PairOutcomes :
        /\ At(r, "sensor_node")
        /\ Commit(r, [i \in Runs |->
                SensorStage(RunQ(r, i), RunDir(r, i), RunModel(r, i), o.prediction)])

pair_service_age_node ==
    \E r \in Requests :
        /\ At(r, "service_age_node")
        /\ Commit(r, [i \in Runs |->
                ServiceAgeStage(RunQ(r, i), RunDir(r, i), RunModel(r, i))])

pair_feature_node ==
    \E r \in Requests :
        /\ At(r, "feature_node")
        /\ \E last \in LastChoices(reqs[r], logs_dir),
              own_last \in LastChoices(alone[r].q, alone[r].dir) :
            Commit(r, [i \in Runs |->
                FeatureStage(RunQ(r, i), RunDir(r, i), RunModel(r, i),
                             IF i = "shared" THEN last ELSE own_last)])

pair_manual_context_node ==
    \E r \in Requests, o \in PairOutcomes :
        /\ At(r, "manual_context_node")
        /\ Commit(r, [i \in Runs |->
                ManualContextStage(RunQ(r, i), RunDir(r, i), RunModel(r, i), o.manual)])

pair_vision_node ==
    \E r \in Requests, o \in PairOutcomes :
        /\ At(r, "vision_node")
        /\ Commit(r, [i \in Runs |->
                VisionStage(RunQ(r, i), RunDir(r, i), RunModel(r, i), o.vision)])

pair_fusion_node ==
    \E r \in Requests :
        /\ At(r, "fusion_node")
        /\ Commit(r, [i \in Runs |->
                FusionStage(RunQ(r, i), RunDir(r, i), RunModel(r, i))])

pair_respond ==
    \E r \in Requests :
        /\ At(r, END)
        /\ Commit(r, [i \in Runs |->
                RespondStage(RunQ(r, i), RunDir(r, i), RunModel(r, i))])

NextPair ==
    \/ pair_analyze
    \/ pair_sensor_node
    \/ pair_service_age_node
    \/ pair_feature_node
    \/ pair_manual_context_node
    \/ pair_vision_node
    \/ pair_fusion_node
    \/ pair_respond

SpecPair == InitPair /\ [][NextPair]_vars

----------------------------------------------------------------------------
(* Every request of the input space, run to its response *)

\* the members of a set, one after another
RECURSIVE InOrder(_)
InOrder(ins) ==
    IF ins = {} THEN <<>>
    ELSE LET in == CHOOSE x \in ins : TRUE
         IN  Append(InOrder(ins \ {in}), in)

\* the pools the inputs are drawn from, each in a fixed order
Pools ==
    [asset_id |-> InOrder(AssetIds),
     current_total_hours |-> InOrder(HoursPool),
     sensors |-> InOrder(SensorPayloads),
     content |-> <<None>> \o InOrder({Some(f) : f \in FilePool}),
     pump_image |-> <<None, Some("pump.jpg")>>,
     prediction |-> InOrder(PredictValues),
     db |-> InOrder(DbOutcomes)]

PoolOrder ==
    <<"asset_id", "current_total_hours", "sensors", "content", "pump_image",
      "prediction", "db">>

\* how many combinations the first k pools have
RECURSIVE Combinations(_)
Combinations(k) ==
    IF k = 0 THEN 1 ELSE Combinations(k - 1) * Len(Pools[PoolOrder[k]])

\* the member of the k-th pool in the i-th combination
Drawn(i, k) ==
    Pools[PoolOrder[k]][(((i - 1) \div Combinations(k - 1)) % Len(Pools[PoolOrder[k]])) + 1]

\* every request with what its collaborators give back, in the order served:
\* each form with each prediction of the model and each outcome of the store
RunOrder ==
    [i \in 1..Combinations(Len(PoolOrder)) |->
        [form |-> [asset_id |-> Drawn(i, 1),
                   current_total_hours |-> Drawn(i, 2),
                   sensors |-> Drawn(i, 3),
                   historical_logs |->
                      IF IsNone(Drawn(i, 4)) THEN None
                      ELSE Some([filename |-> CanonicalName(Drawn(i, 1)),
                                 content |-> Val(Drawn(i, 4))]),
                   pump_image |-> Drawn(i, 5)],
         prediction |-> Drawn(i, 6),
         db |-> Drawn(i, 7),
         vision |-> "summary"]]

\* the request being served, and its position
Served == RunOrder[runs_left]
InFlight == reqs[1]

\* the modality scores a response reports as non-zero
NonZeroScores(resp) ==
    LET read == resp["explanation"].modalities
    IN  {read[i][1] : i \in {j \in 1..Len(read) : read[j][3] # 0}}

InitSweep ==
    /\ pc = "idle"
    /\ state = EmptyDict
    /\ request = EmptyDict
    /\ trace = <<>>
    /\ form = EmptyDict
    /\ result_state = EmptyDict
    /\ response = EmptyDict
    /\ mode = "idle"
    /\ agent = EmptyDict
    /\ report = EmptyDict
    /\ probs = <<>>
    /\ labels = <<>>
    /\ toon_in = <<>>
    /\ toon_out = <<>>
    /\ alone = <<>>
    /\ loads = 0
    /\ model_file = TRUE
    /\ logs_dir = EmptyDict
    /\ _model = Some("booster")
    /\ runs_left = Len(RunOrder)
    /\ reqs = <<NewRequest(Served.form)>>
    /\ store = Served.db
    /\ final_labels = {}
    /\ nonzero_at_fusion = {}

\* the request in flight has run its next stage
Step(after) ==
    /\ reqs' = <<after.q>>
    /\ logs_dir' = after.dir
    /\ _model' = after.model
    /\ UNCHANGED <<pc, state, request, trace, form, result_state, response, store,
                   alone, loads, model_file, mode, agent, report, probs, labels,
                   toon_in, toon_out, runs_left, final_labels, nonzero_at_fusion>>

Serving(at) == runs_left > 0 /\ InFlight.pc = at

sweep_analyze ==
    Serving("analyze") /\ Step(AnalyzeStage(InFlight, logs_dir, _model))

sweep_sensor_node ==
    /\ Serving("sensor_node")
    /\ Step(SensorStage(InFlight, logs_dir, _model, Some(Served.prediction)))

sweep_service_age_node ==
    Serving("service_age_node") /\ Step(ServiceAgeStage(InFlight, logs_dir, _model))

sweep_feature_node ==
    /\ Serving("feature_node")
    /\ Step(FeatureStage(InFlight, logs_dir, _model,
                         CHOOSE last \in LastChoices(InFlight, logs_dir) : TRUE))

sweep_manual_context_node ==
    /\ Serving("manual_context_node")
    /\ Step(ManualContextStage(InFlight, logs_dir, _model, "json"))

sweep_vision_node ==
    Serving("vision_node") /\ Step(VisionStage(InFlight, logs_dir, _model, Served.vision))

sweep_fusion_node ==
    Serving("fusion_node") /\ Step(FusionStage(InFlight, logs_dir, _model))

sweep_respond ==
    Serving(END) /\ Step(RespondStage(InFlight, logs_dir, _model))

\* the response is recorded and the next request comes in, on an empty
\* historical_logs directory
next_request ==
    /\ runs_left > 0
    /\ Ended(InFlight)
    /\ final_labels' =
          IF InFlight.pc = "responded"
          THEN final_labels \cup {Val(InFlight.response["status_label"])}
          ELSE final_labels
    /\ nonzero_at_fusion' =
          IF InFlight.pc = "responded"
          THEN nonzero_at_fusion \cup NonZeroScores(InFlight.response)
          ELSE nonzero_at_fusion
    /\ runs_left' = runs_left - 1
    /\ IF runs_left' = 0
       THEN reqs' = <<>> /\ store' = store
       ELSE LET next == RunOrder[runs_left']
            IN  reqs' = <<NewRequest(next.form)>> /\ store' = next.db
    /\ logs_dir' = EmptyDict
    /\ UNCHANGED <<pc, state, request, trace, form, result_state, response, _model,
                   alone, loads, model_file, mode, agent, report, probs, labels,
                   toon_in, toon_out>>

NextSweep ==
    \/ sweep_analyze
    \/ sweep_sensor_node
    \/ sweep_service_age_node
    \/ sweep_feature_node
    \/ sweep_manual_context_node
    \/ sweep_vision_node
    \/ sweep_fusion_node
    \/ sweep_respond
    \/ next_request

SpecSweep == InitSweep /\ [][NextSweep]_vars

----------------------------------------------------------------------------
(* Properties *)

StageOrder ==
    <<"sensor_node", "service_age_node", "feature_node", "manual_context_node",
      "vision_node", "fusion_node">>

Stages == {StageOrder[i] : i \in 1..Len(StageOrder)}

IsPrefix(s, t) == Len(s) <= Len(t) /\ SubSeq(t, 1, Len(s)) = s

ReportFields ==
    {"fused_score", "status_label", "explanation", "top_signals", "action_items"}

CompleteReport(r) == ReportFields \subseteq DOMAIN r

\* the request is over: analyze has answered, or an exception has left it
RunEnded == pc \in {"responded", "Raised"}

HoldsValue(st, k) == k \in DOMAIN st /\ ~IsNone(st[k])

\* C1: in every run the stages that have started are an initial part of
\* sensor, service_age, feature, manual_context, vision, fusion (so none
\* starts before its predecessor returned and none runs twice), the stage
\* about to run is the next one of that order, and once the graph is Done all
\* six have run with fusion last, whichever modalities the request carries.
C1_StageOrder ==
    /\ IsPrefix(trace, StageOrder)
    /\ pc \in Stages => pc = StageOrder[Len(trace) + 1]
    /\ pc \in {END, "returned", "responded"} => trace = StageOrder

C1_Witness ==
    /\ pc = END
    /\ trace = StageOrder
    /\ IsNone(form.pump_image)
    /\ IsNone(form.historical_logs)

\* C2: once anomaly_query or manual_context holds a non-null value in the
\* running state, every later step (the fusion stage included) leaves it
\* non-null.
C2_ProtectedFieldsKept ==
    [][\A k \in {"anomaly_query", "manual_context"} :
          HoldsValue(state, k) => HoldsValue(state', k)]_vars

\* C3: no failure of a stage's collaborator ends the run with an exception.
C3_NoStageExceptionEndsRun == pc # "Raised"

\* C4: every run that is over has handed the caller a report with fused
\* score, label, explanation, top signals and action items.
C4_EveryRunReports == RunEnded => CompleteReport(response)

WeightNumerators(w) == [i \in 1..Len(Modalities) |-> w[Modalities[i]].n]

\* C5: the weights fuse_and_explain uses and reports are the nominal weights
\* divided by their sum, they sum to 1, and for scores in [0,1] the fused
\* probability lies in [0,1].
C5_WeightsNormalised ==
    mode = "fused" =>
        LET w == [k \in DOMAIN report.modality_contributions |->
                    report.modality_contributions[k].weight]
            fused == Val(report.fused_score)
        IN  /\ \A k \in DOMAIN w :
                /\ w[k].d = w["sensor"].d
                /\ w[k].n * total_weight = NominalWeights[k] * w[k].d
            /\ SumSeq(WeightNumerators(w)) = w["sensor"].d
            /\ fused.d > 0
            /\ 0 <= fused.n
            /\ fused.n <= fused.d

C5_Witness ==
    /\ mode = "fused"
    /\ \A k \in DOMAIN report.modality_contributions :
          report.modality_contributions[k].score = 100
    /\ Val(report.fused_score).n = Val(report.fused_score).d

Rank(label) ==
    CASE label = "low" -> 0
      [] label = "medium" -> 1
      [] label = "high" -> 2
      [] label = "critical" -> 3

\* the bands as the contract states them
BandOf(p) ==
    IF p.n * 100 >= 85 * p.d THEN "critical"
    ELSE IF p.n * 100 >= 60 * p.d THEN "high"
    ELSE IF p.n * 100 >= 35 * p.d THEN "medium"
    ELSE "low"

\* C6: the label is the band of the probability (>= 0.85 critical, >= 0.60
\* high, >= 0.35 medium, else low, the three boundary values in the higher
\* band), equal probabilities get equal labels, a higher probability never
\* gets a lower label, and the label of a fused report is the band of its
\* fused probability.
C6_LabelBands ==
    /\ mode = "labelled" =>
        /\ \A i \in 1..2 : labels[i] = BandOf(probs[i])
        /\ probs[1] = probs[2] => labels[1] = labels[2]
        /\ probs[1].n <= probs[2].n => Rank(labels[1]) <= Rank(labels[2])
    /\ mode = "fused" => Val(report.status_label) = BandOf(Val(report.fused_score))

C6_Witness ==
    /\ mode = "labelled"
    /\ probs = <<Prob(60), Prob(85)>>
    /\ labels = <<"high", "critical">>

\* no modality but the sensor produced a value
SensorAlone(a) ==
    /\ IsNone(a["vision_result"])
    /\ IsNone(a["history_risk_score"])
    /\ IsNone(a["history_result"])
    /\ "service_age_risk_score" \notin DOMAIN a
    /\ "transactional_risk_score" \notin DOMAIN a

\* C7: a sensor probability of 0.9 with no other modality gives the label
\* "critical" and an explanation that cites the sensor contribution only.
C7_SensorAloneCritical ==
    (mode = "fused" /\ agent["sensor_risk_score"] = 90 /\ SensorAlone(agent)) =>
        /\ Val(report.status_label) = "critical"
        /\ \A i \in 1..Len(report.explanation.modalities) :
              report.explanation.modalities[i][1] = "sensor"

\* all five modality scores are present, each at least 0.6
AllFiveAtLeast(a, pct) ==
    /\ a["sensor_risk_score"] >= pct
    /\ ~IsNone(a["vision_result"])
    /\ Val(a["vision_result"]).visual_risk_score >= pct
    /\ ~IsNone(a["history_risk_score"])
    /\ Val(a["history_risk_score"]) >= pct
    /\ "service_age_risk_score" \in DOMAIN a
    /\ a["service_age_risk_score"] >= pct
    /\ "transactional_risk_score" \in DOMAIN a
    /\ a["transactional_risk_score"] >= pct

\* C8: when all five modality scores are present and each is at least 0.6,
\* the label of the fused report is high or critical.
C8_AllHighNeverBelowHigh ==
    (mode = "fused" /\ AllFiveAtLeast(agent, 60)) =>
        Val(report.status_label) \in {"high", "critical"}

C8_Witness ==
    /\ mode = "fused"
    /\ AllFiveAtLeast(agent, 60)
    /\ \A k \in DOMAIN report.modality_contributions :
          report.modality_contributions[k].score = 60
    /\ Val(report.status_label) = "high"

\* the canonical name of the request's asset in data/historical_logs
OwnHistoryName == CanonicalName(lower(sanitize_str(form.asset_id)))

HistoryAbsent == OwnHistoryName \notin DOMAIN logs_dir

BaselineDone == Len(trace) >= 3

EmptyBaseline(st) ==
    /\ st["adaptive_thresholds"] = NullPerSensor
    /\ st["rolling_means"] = NullPerSensor
    /\ st["drift_scores"] = NullPerSensor
    /\ st["is_historical_outlier"] = FALSE
    /\ st["triggered_sensors"] = <<>>
    /\ IsNone(st["history_risk_score"])
    /\ IsNone(st["historical_toon_string"])

\* C9: with no historical file for the asset, the baseline stage has returned
\* the empty result, the history term of the fused probability is 0, and the
\* run ends with a full report.
C9_AbsentHistoryFullReport ==
    (HistoryAbsent /\ BaselineDone) =>
        /\ EmptyBaseline(state)
        /\ "modality_contributions" \in DOMAIN state =>
              state["modality_contributions"]["history"].score = 0
        /\ RunEnded => CompleteReport(response)

\* the rows the baseline stage reads, once it has read them
BaselineRows == SortRuns(logs_dir[OwnHistoryName].rows)

BaselineComputed ==
    /\ BaselineDone
    /\ ~HistoryAbsent
    /\ logs_dir[OwnHistoryName].readable
    /\ logs_dir[OwnHistoryName].columns_ok
    /\ ~logs_dir[OwnHistoryName].too_large

InTriggered(st, s) ==
    \E i \in 1..Len(st["triggered_sensors"]) : st["triggered_sensors"][i] = s

\* what the loop body yields for sensor s on its own
Alone(s) == SensorStep(EmptyAcc, BaselineRows, Val(request["sensor_input"]), s)

\* C10: per sensor, fewer than 10 non-null samples give a null threshold,
\* rolling mean and drift and the sensor is never triggered; 10 or more give
\* all three populated; and a sensor's results are those it gets on its own,
\* whatever the other sensors' sample counts.
C10_MinSamplesPerSensor ==
    BaselineComputed =>
        \A i \in 1..Len(Sensors) :
            LET s == Sensors[i]
                n == SeriesLen(drop_nulls(BaselineRows, s))
            IN  /\ n < 10 =>
                    /\ IsNone(state["adaptive_thresholds"][s])
                    /\ IsNone(state["rolling_means"][s])
                    /\ IsNone(state["drift_scores"][s])
                    /\ ~InTriggered(state, s)
                /\ n >= 10 =>
                    /\ ~IsNone(state["adaptive_thresholds"][s])
                    /\ ~IsNone(state["rolling_means"][s])
                    /\ ~IsNone(state["drift_scores"][s])
                /\ state["adaptive_thresholds"][s] = Alone(s).adaptive_thresholds[s]
                /\ state["rolling_means"][s] = Alone(s).rolling_means[s]
                /\ state["drift_scores"][s] = Alone(s).drift_scores[s]

C10_Witness ==
    /\ BaselineComputed
    /\ SeriesLen(drop_nulls(BaselineRows, "Vibration")) = 9
    /\ SeriesLen(drop_nulls(BaselineRows, "Temperature")) = 10
    /\ IsNone(state["adaptive_thresholds"]["Vibration"])
    /\ ~IsNone(state["adaptive_thresholds"]["Temperature"])
    /\ ~IsNone(Val(request["sensor_input"]).vibration)

\* the non-null samples of sensor s the baseline stage read
Samples(s) == drop_nulls(BaselineRows, s)

\* C11: for every sensor with statistics, the divisor of the drift score is
\* never zero: it is 1.0 when the series' standard deviation is 0 and the
\* standard deviation otherwise, and the numerator is rolling mean minus
\* global mean, the rolling mean being the mean of the last 100 samples, or of
\* all samples when there are fewer than 100.
C11_DriftDivisor ==
    BaselineComputed =>
        \A i \in 1..Len(Sensors) :
            LET s == Sensors[i]
                vals == Samples(s)
                rolling == IF SeriesLen(vals) >= 100 THEN mean(LastSamples(vals, 100))
                           ELSE mean(vals)
            IN  SeriesLen(vals) >= 10 =>
                    LET drift == Val(state["drift_scores"][s])
                    IN  /\ drift.std_sq.n # 0
                        /\ drift.std_sq.d # 0
                        /\ variance(vals).n = 0 => drift.std_sq = Frac(1, 1)
                        /\ variance(vals).n # 0 => drift.std_sq = variance(vals)
                        /\ Val(state["rolling_means"][s]) = rolling
                        /\ drift.diff = FracSub(rolling, mean(vals))

\* a file longer than the window: Vibration constant (divisor 1.0), Pressure
\* with a rolling mean above its global mean (divisor its deviation)
C11_Witness ==
    /\ BaselineComputed
    /\ SeriesLen(Samples("Vibration")) > 100
    /\ variance(Samples("Vibration")).n = 0
    /\ Val(state["drift_scores"]["Vibration"]).std_sq = Frac(1, 1)
    /\ Val(state["drift_scores"]["Vibration"]).diff.n = 0
    /\ Val(state["drift_scores"]["Pressure"]).diff.n > 0
    /\ Val(state["drift_scores"]["Pressure"]).std_sq = variance(Samples("Pressure"))

ServiceAgeDone == Len(trace) >= 2

Listed(task_name) ==
    \E i \in 1..Len(state["overdue_tasks"]) :
        state["overdue_tasks"][i].task_name = task_name

\* C12: with the store reachable, a scheduled task is listed as overdue if
\* and only if (current_hours - last_done) - interval_hours > 0, last_done
\* being the hour-at-service of its most recent work-log entry or 0 without
\* one; a task with a gap of exactly 0 is not listed, and every listed entry
\* records that gap, which is strictly positive.
C12_OverdueRule ==
    (ServiceAgeDone /\ ~IsNone(store)) =>
        LET db == Val(store)
            current_hours == Val(state["current_total_hours"])
            Gap(row) == (current_hours - last_done(db, row[1])) - row[2]
        IN  /\ "overdue_tasks" \in DOMAIN state
            /\ \A i \in 1..Len(db.service_schedules) :
                  LET row == db.service_schedules[i]
                  IN  /\ Listed(row[1]) <=> Gap(row) > 0
                      /\ Gap(row) = 0 => ~Listed(row[1])
            /\ \A i \in 1..Len(state["overdue_tasks"]) :
                  LET e == state["overdue_tasks"][i]
                  IN  /\ e.overdue_hours > 0
                      /\ e.overdue_hours =
                            (e.current_total_hours - e.last_done) - e.interval_hours
                      /\ e.current_total_hours = current_hours
                      /\ e.last_done = last_done(db, e.task_name)
                      /\ \E j \in 1..Len(db.service_schedules) :
                            db.service_schedules[j] = <<e.task_name, e.interval_hours>>

\* at 100 hours: "oil" (every 100 h, never done) is exactly at its boundary
\* and not listed, "seal" (every 40 h, last done at 50 h) is listed, 10 h over
C12_Witness ==
    /\ ServiceAgeDone
    /\ store = Some(StockedDb)
    /\ Val(state["current_total_hours"]) = 100
    /\ ~Listed("oil")
    /\ Len(state["overdue_tasks"]) = 1
    /\ state["overdue_tasks"][1].task_name = "seal"
    /\ state["overdue_tasks"][1].overdue_hours = 10
    /\ state["overdue_tasks"][1].last_done = 50

\* the entries encode_dict keeps
RECURSIVE NonEmptyItems(_)
NonEmptyItems(items) ==
    IF items = <<>> THEN <<>>
    ELSE (IF IsEmptyValue(Head(items)[2]) THEN <<>> ELSE <<Head(items)>>)
         \o NonEmptyItems(Tail(items))

IsNumber(value) == TypeOf(value) \in {"bool", "int", "float"}

\* a number in thousandths
Thousandths(value) ==
    CASE TypeOf(value) = "bool" -> IF Content(value) THEN 1000 ELSE 0
      [] TypeOf(value) = "int" -> Content(value) * 1000
      [] TypeOf(value) = "float" -> Content(value)

\* the decoded value equals the original (as Python's == has it, a float
\* compared at 4 significant digits); key names are not compared
RECURSIVE Reproduces(_, _)
Reproduces(orig, dec) ==
    IF IsNumber(orig)
    THEN IsNumber(dec) /\ Thousandths(dec) = Round4(Thousandths(orig))
    ELSE /\ TypeOf(dec) = TypeOf(orig)
         /\ CASE TypeOf(orig) = "none" -> TRUE
              [] TypeOf(orig) = "str" -> Content(dec) = Content(orig)
              [] TypeOf(orig) = "list" ->
                    /\ Len(Content(dec)) = Len(Content(orig))
                    /\ \A i \in 1..Len(Content(orig)) : Reproduces(Content(orig)[i], Content(dec)[i])
              [] TypeOf(orig) = "dict" ->
                    LET kept == NonEmptyItems(Content(orig))
                    IN  /\ Len(Content(dec)) = Len(kept)
                        /\ \A i \in 1..Len(kept) : Reproduces(kept[i][2], Content(dec)[i][2])

\* C13: decode(encode(record)) has one entry per non-empty entry of the
\* record and reproduces every value (floats to 4 significant digits), for
\* records of scalars, strings, lists of scalars of any length and one level
\* of nested record; key names may differ.
C13_RoundTrip == mode = "round_tripped" => Reproduces(toon_in, toon_out.record)

\* every closing bracket has an opener before it and every opener is closed
RECURSIVE BracketDepths(_, _)
BracketDepths(text, depth) ==
    IF text = <<>> THEN <<depth>>
    ELSE <<depth>> \o BracketDepths(Tail(text),
                        IF Head(text) = NEST_OPEN THEN depth + 1
                        ELSE IF Head(text) = NEST_CLOSE THEN depth - 1
                        ELSE depth)

Balanced(text) ==
    LET depths == BracketDepths(text, 0)
    IN  /\ \A i \in 1..Len(depths) : depths[i] >= 0
        /\ depths[Len(depths)] = 0

\* C14: decode of a text with unbalanced brackets fails with a DecodeError
\* and returns no record.
C14_UnbalancedRaises ==
    (mode = "decoded" /\ ~Balanced(toon_in)) => toon_out.raised = Some("DecodeError")

\* the request carried a series file that analyze wrote to the historical_logs
\* directory
UploadSaved ==
    /\ ~IsNone(form.historical_logs)
    /\ Val(form.historical_logs).filename[Len(Val(form.historical_logs).filename)]
           = HistorySuffix

\* C15: when a request carried an uploaded historical series file, the file
\* written at its path is gone from the historical_logs directory once the
\* run is over, whether the run answered or ended with an exception.
C15_UploadReleased ==
    (RunEnded /\ UploadSaved) =>
        Val(form.historical_logs).filename \notin DOMAIN logs_dir

\* C16: for two requests processed concurrently, under every interleaving of
\* their steps, a request that is over ended the way it ends when run on data
\* no other request touches, with the same report.
C16_ReportAsAlone ==
    \A r \in Requests :
        Ended(reqs[r]) =>
            /\ reqs[r].pc = alone[r].q.pc
            /\ reqs[r].response = alone[r].q.response

\* C17: across every interleaving of two requests the model file is opened
\* for loading at most once, and a handle that is set is never assigned again.
C17_LoadedOnce ==
    [][/\ loads' <= 1
       /\ ~IsNone(_model) => _model' = _model]_vars

\* C18: when the running state cannot be validated at the fusion boundary,
\* fusion_node returns that state with the default report merged in: fused
\* score 0, label "low", exactly one action item, no top signals, and every
\* key outside the report fields with the value it had.
C18_FallbackReport ==
    (mode = "merged" /\ AgentStateInvalid(agent)) =>
        /\ DOMAIN report = DOMAIN agent \cup ReportFields
        /\ report["fused_score"] = Some([n |-> 0, d |-> 1])
        /\ report["status_label"] = Some("low")
        /\ Len(report["action_items"]) = 1
        /\ report["top_signals"] = <<>>
        /\ \A k \in DOMAIN agent \ ReportFields : report[k] = agent[k]

C18_Witness ==
    /\ mode = "merged"
    /\ AgentStateInvalid(agent)
    /\ "manual_context" \in DOMAIN agent
    /\ "pump_id" \notin DOMAIN agent
    /\ report["action_items"] = <<"Check system configuration">>

\* C19: the primary-signal stage never ends the run: when the model could not
\* be loaded (the handle is still None after the stage reached it) or its
\* predict call failed, the stage hands on a state whose sensor_risk_score is
\* 0, and the pipeline continues with the next stage.
C19_ZeroWhenUnavailable ==
    [][pc = "sensor_node" =>
          /\ pc' = Edges["sensor_node"]
          /\ (SensorReachesModel(state) /\ IsNone(_model'))
                => state'["sensor_risk_score"] = 0]_vars

\* after is before with update merged in, key by key
ShallowMerged(before, update, after) ==
    /\ DOMAIN after = DOMAIN before \cup DOMAIN update
    /\ \A k \in DOMAIN after :
          after[k] = IF k \in DOMAIN update THEN update[k] ELSE before[k]

LiveValue(s) == _current_val(Val(request["sensor_input"]), s)

\* C21: after the baseline stage a sensor is in the triggered list exactly
\* when its threshold was computed and its live value is present and strictly
\* greater than that threshold; the outlier flag is true exactly when the
\* list is non-empty; history_risk_score is 0.5 with the flag and null
\* without it.
C21_TriggeredIffExceeds ==
    BaselineDone =>
        /\ \A i \in 1..Len(Sensors) :
              LET s == Sensors[i]
                  threshold == state["adaptive_thresholds"][s]
              IN  InTriggered(state, s) <=>
                    /\ ~IsNone(threshold)
                    /\ ~IsNone(LiveValue(s))
                    /\ Val(LiveValue(s)) > Val(threshold)
        /\ state["is_historical_outlier"] = (state["triggered_sensors"] # <<>>)
        /\ state["history_risk_score"] =
              IF state["is_historical_outlier"] THEN Some(OutlierRiskPct) ELSE None

C21_Witness ==
    /\ BaselineComputed
    /\ state["triggered_sensors"] = <<"Vibration", "Pressure">>
    /\ LiveValue("Temperature") = state["adaptive_thresholds"]["Temperature"]
    /\ state["history_risk_score"] = Some(OutlierRiskPct)

\* the rules of the claim that the fused object triggers, in their order
TriggeredRules(st) ==
    LET vision == st["vision_result"]
        history == getattr(st, "history_result", None)
    IN  (IF getattr(st, "triggered_sensors", <<>>) # <<>>
         THEN <<"historical sensor spike">> ELSE <<>>)
        \o (IF ~IsNone(vision) /\ Val(vision).has_leaks THEN <<"visual leak">> ELSE <<>>)
        \o (IF ~IsNone(vision) /\ Val(vision).has_cracks THEN <<"visual crack">> ELSE <<>>)
        \o (IF ~IsNone(history) /\ Val(history).overdue_tasks # <<>>
            THEN <<"overdue tasks">> ELSE <<>>)
        \o (IF getattr(st, "service_age_risk_score", 0) > 50
            THEN <<"maintenance age">> ELSE <<>>)
        \o (IF getattr(st, "transactional_risk_score", 0) > 50
            THEN <<"outstanding requests">> ELSE <<>>)

\* C22: in every fused report action_items is non-empty, holds at least one
\* entry per triggered rule, and is the single default entry exactly when no
\* rule is triggered.
C22_ItemPerRule ==
    mode = "fused" =>
        /\ report["action_items"] # <<>>
        /\ Len(report["action_items"]) >= Len(TriggeredRules(agent))
        /\ report["action_items"] = <<"Continue routine monitoring.">>
              <=> TriggeredRules(agent) = <<>>

\* the running state neither holds the operating hours nor names a series
\* they could be read from
HoursUnknown(st) ==
    /\ IsNone(Get(st, "current_total_hours", None))
    /\ "historical_logs_path" \notin DOMAIN st

MissingHours ==
    "Missing current_total_hours and cannot infer from historical_logs."

\* C23: when the operating hours are neither in the state nor inferable, the
\* maintenance stage returns only the error field investigator_error,
\* whatever the store would have answered, and the state it hands on is the
\* running state with that one field added.
C23_MissingHoursError ==
    (mode = "stage_merged" /\ report.stage = "service_age_node" /\ HoursUnknown(agent)) =>
        /\ report.update = [investigator_error |-> MissingHours]
        /\ DOMAIN report.merged = DOMAIN agent \cup {"investigator_error"}
        /\ \A k \in DOMAIN agent : report.merged[k] = agent[k]

C23_Witness ==
    /\ mode = "stage_merged"
    /\ report.stage = "service_age_node"
    /\ "current_total_hours" \notin DOMAIN agent
    /\ "manual_context" \in DOMAIN agent
    /\ report.merged["investigator_error"] = MissingHours
    /\ "overdue_tasks" \notin DOMAIN report.merged

\* C24: when the relational store is unreachable or a query of the
\* maintenance stage fails, the running state after the stage is the state
\* before it (no overdue-task or open-request list, anomaly_query not
\* extended) and the run goes on to the baseline stage.
C24_StoreFailurePassThrough ==
    [][(pc = "service_age_node" /\ IsNone(store)) =>
          /\ state' = state
          /\ pc' = "feature_node"]_vars

C24_Witness ==
    /\ IsNone(store)
    /\ pc = "feature_node"
    /\ trace = <<"sensor_node", "service_age_node">>
    /\ "overdue_tasks" \notin DOMAIN state
    /\ "open_requests" \notin DOMAIN state
    /\ state["anomaly_query"] = Some(<<"sensor_risk_score">>)

\* C25: in the state run_agent returns pump_id and current_total_hours are
\* never missing or null: a value the graph result holds is returned as it
\* is, and one it lacks or holds as null is the request's value.
C25_IdentityRestored ==
    mode = "returned" =>
        /\ ~report.raised
        /\ \A k \in {"pump_id", "current_total_hours"} :
              /\ ~IsNone(report.result[k])
              /\ report.result[k] =
                    IF HoldsValue(agent, k) THEN agent[k] ELSE OtherRequest[k]

C25_Witness ==
    /\ mode = "returned"
    /\ "pump_id" \notin DOMAIN agent
    /\ agent["current_total_hours"] = Some(100)
    /\ report.result["pump_id"] = Some(<<"p", "1", "0">>)
    /\ report.result["current_total_hours"] = Some(100)

\* C26: anomaly_query is append-only: whenever a step changes the running
\* state that holds an anomaly_query, the new value is non-null and has the
\* old value as a prefix.
C26_AnomalyQueryAppendOnly ==
    [][HoldsValue(state, "anomaly_query") =>
          /\ HoldsValue(state', "anomaly_query")
          /\ IsPrefix(Val(state["anomaly_query"]), Val(state'["anomaly_query"]))]_vars


\* C27: once every request of the input space has been served, each of the
\* four labels low, medium, high and critical was the status label of some
\* response, and each of the five modality scores fusion reads was non-zero
\* at fusion in some run.
C27_EveryLabelReached ==
    runs_left = 0 =>
        /\ final_labels = {"low", "medium", "high", "critical"}
        /\ nonzero_at_fusion
              = {"sensor", "vision", "history", "service_age", "transactional"}

\* C28: the baseline stage run for one asset leaves the historical file stored
\* for every other asset where it is and as it is, so a later run for that
\* asset still finds it.
C28_OtherAssetsFileKept ==
    [][pc = "feature_node" =>
          \A other \in AssetIds :
              /\ other # FeaturePumpId(state)
              /\ CanonicalName(other) \in DOMAIN logs_dir
              => /\ CanonicalName(other) \in DOMAIN logs_dir'
                 /\ logs_dir'[CanonicalName(other)] = logs_dir[CanonicalName(other)]]_vars

\* the normalised names of the modalities a state dict lists
NormListed(st) ==
    {NormModality(Get(st, "available_modalities", <<>>)[i]) :
        i \in 1..Len(Get(st, "available_modalities", <<>>))}

\* C29: route_modalities returns a non-empty list, every name in it is a
\* stage registered by build_graph, and the list is exactly [fusion_node] if
\* and only if none of sensor, text, vision, historical, history is among the
\* available modalities.
C29_RouteRegistered ==
    mode = "routed" =>
        /\ report.nodes # <<>>
        /\ \A i \in 1..Len(report.nodes) : report.nodes[i] \in RegisteredNodes
        /\ report.nodes = <<"fusion_node">> <=> NormListed(agent) \cap Modality = {}

\* C30: for all current hours, last-service hours and interval > 0, the tool
\* calculate_service_gap reports is_overdue exactly when the maintenance
\* evaluator's rule (current - last_done) - interval > 0 flags the task.
C30_OverdueAgree ==
    mode = "gap_done" => (report.tool.is_overdue <=> report.evaluator)

============================================================================
